---- MODULE Spec2Model ----
(***************************************************************************)
(* Model of the conversation engine of the Rosatel chatbot                 *)
(* (src/services/ai_brain.py, src/database/models.py).                     *)
(*                                                                         *)
(* Conventions.  Prices are whole soles (the comparisons of the code are   *)
(* modelled on integers; a tolerance of 1.2 is modelled as 12/10).  A      *)
(* Python None, a missing dictionary key and an absent optional object are *)
(* modelled by an explicit flag or by the key's absence from a function's  *)
(* DOMAIN.  Each group of variables belongs to one specification; the      *)
(* other specifications keep it at its idle value.                         *)
(***************************************************************************)
EXTENDS Integers, Sequences, FiniteSets, TLC

VARIABLES
    carrito,        \* Carrito.items of a stand-alone cart (SpecCarrito)
    llamadas,       \* the agregar_item calls made so far, in order (history)
    conversacion,   \* the Conversacion: mensajes, carrito, contexto
    mensaje,        \* the inbound message text
    mcp,            \* the catalog behind MCPToolboxService (fixed during a run)
    busqueda,       \* SpecBusqueda: calls made and what they returned
    bq,             \* the table behind BigQueryService (fixed during a run)
    respuesta,      \* the raw text written by the language model
    resultado,      \* what _procesar_acciones returned, or the error it raised
    modelo,         \* the language model client and what it answers (fixed)
    turno,          \* what procesar_mensaje returned, or the error it raised
    almacen,        \* the SessionManager and the store behind it
    peticiones,     \* the requests of the routers and how far each has got
    retorno,        \* what the last call of the SessionManager returned
    deteccion,      \* what _detectar_upselling_response returned
    dialogo,        \* the turns of the session so far, oldest first
    extraccion      \* the context before and after extraer_preferencias

carritoVars == <<carrito, llamadas>>
convVars == <<conversacion, mensaje, mcp>>
busquedaVars == <<busqueda>>
accionesVars == <<bq, respuesta, resultado>>
turnoVars == <<modelo, turno, deteccion, dialogo, extraccion>>
sesionVars == <<almacen, peticiones, retorno>>

vars == <<carrito, llamadas, conversacion, mensaje, mcp, busqueda,
          bq, respuesta, resultado, modelo, turno, almacen, peticiones, retorno,
          deteccion, dialogo, extraccion>>

-----------------------------------------------------------------------------
(* Generic helpers on sequences.                                           *)

RECURSIVE SumaSeq(_)
SumaSeq(s) == IF s = <<>> THEN 0 ELSE Head(s) + SumaSeq(Tail(s))

\* s[:n]
Primeros(s, n) == SubSeq(s, 1, IF Len(s) < n THEN Len(s) ELSE n)

Rango(s) == {s[i] : i \in DOMAIN s}

-----------------------------------------------------------------------------
(* Carrito and CarritoItem (src/database/models.py).                        *)

\* Bounds of the stand-alone cart specification.
MaxLlamadas == 3
MaxCantidad == 2

ProductoIds == {"26", "27", "G-1"}
PreciosFinales == {15, 125}

\* the Producto objects a caller may pass: id and precio_final
ProductosArg == [id : ProductoIds, producto : {"Producto"}, precio_final : PreciosFinales]

\* "any quantities": cantidad is an unchecked int
Cantidades == {-1, 0} \cup (1..MaxCantidad)

\* CarritoItem.__init__: the subtotal is computed at construction
CarritoItem(producto_id, producto_nombre, cantidad, precio_unitario) ==
    [producto_id     |-> producto_id,
     producto_nombre |-> producto_nombre,
     cantidad        |-> cantidad,
     precio_unitario |-> precio_unitario,
     subtotal        |-> cantidad * precio_unitario]

\* the index of the first item with this id, 0 when there is none
IndiceItem(items, producto_id) ==
    IF \E i \in DOMAIN items : items[i].producto_id = producto_id
    THEN CHOOSE i \in DOMAIN items :
            /\ items[i].producto_id = producto_id
            /\ \A j \in 1..(i - 1) : items[j].producto_id # producto_id
    ELSE 0

\* a plausible bug: always append, never look for the id
agregar_item_sin_buscar(items, producto, cantidad) ==
    Append(items, CarritoItem(producto.id, producto.producto, cantidad, producto.precio_final))

\* Carrito.agregar_item
agregar_item(items, producto, cantidad) ==
    LET i == IndiceItem(items, producto.id) IN
    IF i # 0
    THEN [items EXCEPT
            ![i].cantidad = @ + cantidad,
            ![i].subtotal = (items[i].cantidad + cantidad) * items[i].precio_unitario]
    ELSE Append(items, CarritoItem(producto.id, producto.producto, cantidad, producto.precio_final))

\* Carrito.total
CarritoTotal(items) == SumaSeq([i \in DOMAIN items |-> items[i].subtotal])

-----------------------------------------------------------------------------
(* Text.  A text of the model is a string of the vocabulary below.  The     *)
(* table gives, for each, the keywords of ai_brain.py that occur in its     *)
(* lower-cased form (Python's `kw in text.lower()`), and its lower-cased    *)
(* form.  Model names are ASCII: "Cumpleanyos" stands for the occasion      *)
(* written with n-tilde; keywords with non-ASCII letters occur in no text   *)
(* of the vocabulary.                                                       *)

\* BEGIN Subcadenas
Subcadenas ==
    "Cumpleanyos" :> {"anyos", "cumple", "cumpleanyos"} @@
    "Amor" :> {"amor"} @@
    "Amistad" :> {"amistad"} @@
    "Variado" :> {"va", "variado"} @@
    "Peluche" :> {"peluche"} @@
    "Ramo" :> {"ramo"} @@
    "Chocolates" :> {"chocolate", "chocolates"} @@
    "Globos" :> {"globo", "globos"} @@
    "Arreglo Floral" :> {"arreglo", "flor"} @@
    "rosas" :> {"rosa", "rosas"} @@
    "tulipanes" :> {"tulipan", "tulipanes"} @@
    "rojo" :> {"rojo"} @@
    "rosa" :> {"rosa"} @@
    "blanco" :> {"blanco"} @@
    "chocolates" :> {"chocolate", "chocolates"} @@
    "peluche" :> {"peluche"} @@
    "globos" :> {"globo", "globos"} @@
    "flores" :> {"flor", "flores"} @@
    "Caja con 12 rosas" :> {"caja", "caja con 12 rosas", "rosa", "rosas"} @@
    "Ramo de tulipanes" :> {"ramo", "tulipan", "tulipanes"} @@
    "Oso de peluche" :> {"oso", "oso de peluche", "peluche"} @@
    "Chocolates Ferrero" :> {"chocolate", "chocolates", "chocolates ferrero", "ferrero"} @@
    "Globo corazon" :> {"corazon", "globo", "globo corazon"} @@
    "Globo feliz cumple" :> {"cumple", "feliz cumple", "globo"} @@
    "Ramo de rosas" :> {"ramo", "rosa", "rosas"} @@
    "Girasoles" :> {"girasol", "girasoles"} @@
    "Orquidea" :> {"orquidea"} @@
    "Lirios" :> {"lirio", "lirios"} @@
    "Vino tinto" :> {"tinto", "vino"} @@
    "Flores" :> {"flor", "flores"} @@
    "Rosa" :> {"rosa"} @@
    "Rojo" :> {"rojo"} @@
    "Ramo de 12 Rosas Rojas" :> {"ramo", "ramo de 12 rosas rojas", "rojas", "rosa", "rosas"} @@
    "Oso de Peluche Grande" :> {"grande", "oso", "oso de peluche", "peluche"} @@
    "Peluches" :> {"peluche", "peluches"} @@
    "Oso" :> {"oso"} @@
    "Beige" :> {} @@
    "Nada" :> {"nada"} @@
    "Producto" :> {"producto"} @@
    "caja" :> {"caja"} @@
    "" :> {} @@
    "Graduacion" :> {} @@
    "Aniversario" :> {"aniversario"} @@
    "Condolencias" :> {"condolencia", "condolencias"} @@
    "Inauguraciones" :> {"inauguracion"} @@
    "Mejorate Pronto" :> {} @@
    "Nacimiento" :> {"nacimiento"} @@
    "Matrimonio" :> {"matrimonio"} @@
    "Para El" :> {} @@
    "Para su escritorio" :> {"escritorio"} @@
    "Para Ninyos" :> {"ninyo"} @@
    "amarillo" :> {"amarillo"} @@
    "naranja" :> {"naranja"} @@
    "morado" :> {"morado"} @@
    "azul" :> {"azul"} @@
    "variado" :> {"va", "variado"} @@
    "girasoles" :> {"girasol", "girasoles"} @@
    "orquideas" :> {"orquidea", "orquideas"} @@
    "liliums" :> {"lilium", "liliums"} @@
    "astromelias" :> {"astromelia", "astromelias"} @@
    "gladiolos" :> {"gladiolo", "gladiolos"} @@
    "Vino" :> {"vino"} @@
    "Caja Flores" :> {"caja", "flor", "flores"} @@
    "Corona Funebre" :> {"corona"} @@
    "Dia de la Madre" :> {"madre"} @@
    "chocolate" :> {"chocolate"} @@
    "globo" :> {"globo"} @@
    "vino" :> {"vino"} @@
    "ramo" :> {"ramo"} @@
    "hola" :> {"hola"} @@
    "muestrame opciones" :> {"muestrame", "opciones"} @@
    "si" :> {"si"} @@
    "tienes chocolates" :> {"chocolate", "chocolates", "tienes"} @@
    "lo quiero" :> {"lo quiero", "quiero"} @@
    "horario de tienda" :> {"horario", "tienda"} @@
    "rosas para mi novia hasta 100 soles" :> {"novia", "rosa", "rosas"} @@
    "para cumple 150 soles" :> {"cumple"} @@
    "si para cumple 150 soles" :> {"cumple", "si"} @@
    " " :> {} @@
    "si al carrito" :> {"carrito", "si"} @@
    "siempre" :> {"si"} @@
    "entre 100 y 200 soles" :> {} @@
    "2 a 5 rosas" :> {"rosa", "rosas"} @@
    "tengo 20 soles" :> {} @@
    "quiero 12 rosas" :> {"quiero", "rosa", "rosas"} @@
    "3 ramos hasta 80 soles" :> {"ramo", "ramos"} @@
    "entre 20 y 40 soles" :> {} @@
    "Hola! Que andas buscando?" :> {"?", "hola"} @@
    "Online 24/7 con envio a todo Lima." :> {"envio"} @@
    "Tiendas:" :> {"tienda"} @@
    "Mira estas opciones:" :> {"opciones"} @@
    "Si quieres, puedo agregarte chocolates Ferrero (S/35) o un peluche (desde S/79)." :> {"agregar", "chocolate", "chocolates", "chocolates ferrero", "ferrero", "peluche", "s/", "si"} @@
    "Tambien tenemos packs con flores y chocolates. Te muestro?" :> {"?", "chocolate", "chocolates", "flor", "flores"} @@
    "Para que ocasion seria?" :> {"?", "ocasion", "si"} @@
    "Que lindo! Es para cumpleanos, para ninos, o regalo romantico?" :> {"?", "anos", "cumple", "cumpleanos", "nino", "regalo", "romantico"} @@
    "Que andas buscando?" :> {"?"} @@
    "Y mas o menos cuanto pensabas gastar?" :> {"?"} @@
    "Envio a todo Lima en 24-48h. Costo: S/15-25." :> {"envio", "s/"} @@
    "Tu carrito esta vacio. Que quieres agregar?" :> {"?", "agregar", "carrito", "va"} @@
    "Cuentame mas. Que ocasion es y cuanto quieres gastar?" :> {"?", "ocasion", "si"} @@
    "Lo siento, no pude procesar tu mensaje. Podrias repetirlo?" :> {"?", "si"} @@
    "Aqui tienes los globos disponibles:" :> {"globo", "globos", "tienes"} @@
    "Excelente eleccion! Te muestro los chocolates:" :> {"chocolate", "chocolates"} @@
    "Aqui tienes los peluches disponibles:" :> {"peluche", "peluches", "tienes"} @@
    "Hola" :> {"hola"} @@
    "Agregado al carrito" :> {"agregado", "carrito"} @@
    "Te gustaria agregar un globo?" :> {"?", "agregar", "globo"} @@
    "Con S/150 te puedo mostrar mas opciones. Dale?" :> {"?", "dale", "mostrar", "opciones", "s/", "te puedo mostrar"} @@
    "Quieres un peluche?" :> {"?", "peluche"} @@
    "Quieres chocolates o un peluche?" :> {"?", "chocolate", "chocolates", "peluche"} @@
    "Quieres globos, chocolates o un peluche?" :> {"?", "chocolate", "chocolates", "globo", "globos", "peluche"}

Minusculas ==
    "Cumpleanyos" :> "cumpleanyos" @@
    "Amor" :> "amor" @@
    "Amistad" :> "amistad" @@
    "Variado" :> "variado" @@
    "Peluche" :> "peluche" @@
    "Ramo" :> "ramo" @@
    "Chocolates" :> "chocolates" @@
    "Globos" :> "globos" @@
    "Arreglo Floral" :> "arreglo floral" @@
    "rosas" :> "rosas" @@
    "tulipanes" :> "tulipanes" @@
    "rojo" :> "rojo" @@
    "rosa" :> "rosa" @@
    "blanco" :> "blanco" @@
    "chocolates" :> "chocolates" @@
    "peluche" :> "peluche" @@
    "globos" :> "globos" @@
    "flores" :> "flores" @@
    "Caja con 12 rosas" :> "caja con 12 rosas" @@
    "Ramo de tulipanes" :> "ramo de tulipanes" @@
    "Oso de peluche" :> "oso de peluche" @@
    "Chocolates Ferrero" :> "chocolates ferrero" @@
    "Globo corazon" :> "globo corazon" @@
    "Globo feliz cumple" :> "globo feliz cumple" @@
    "Ramo de rosas" :> "ramo de rosas" @@
    "Girasoles" :> "girasoles" @@
    "Orquidea" :> "orquidea" @@
    "Lirios" :> "lirios" @@
    "Vino tinto" :> "vino tinto" @@
    "Flores" :> "flores" @@
    "Rosa" :> "rosa" @@
    "Rojo" :> "rojo" @@
    "Ramo de 12 Rosas Rojas" :> "ramo de 12 rosas rojas" @@
    "Oso de Peluche Grande" :> "oso de peluche grande" @@
    "Peluches" :> "peluches" @@
    "Oso" :> "oso" @@
    "Beige" :> "beige" @@
    "Nada" :> "nada" @@
    "Producto" :> "producto" @@
    "caja" :> "caja" @@
    "" :> "" @@
    "Graduacion" :> "graduacion" @@
    "Aniversario" :> "aniversario" @@
    "Condolencias" :> "condolencias" @@
    "Inauguraciones" :> "inauguraciones" @@
    "Mejorate Pronto" :> "mejorate pronto" @@
    "Nacimiento" :> "nacimiento" @@
    "Matrimonio" :> "matrimonio" @@
    "Para El" :> "para el" @@
    "Para su escritorio" :> "para su escritorio" @@
    "Para Ninyos" :> "para ninyos" @@
    "amarillo" :> "amarillo" @@
    "naranja" :> "naranja" @@
    "morado" :> "morado" @@
    "azul" :> "azul" @@
    "variado" :> "variado" @@
    "girasoles" :> "girasoles" @@
    "orquideas" :> "orquideas" @@
    "liliums" :> "liliums" @@
    "astromelias" :> "astromelias" @@
    "gladiolos" :> "gladiolos" @@
    "Vino" :> "vino" @@
    "Caja Flores" :> "caja flores" @@
    "Corona Funebre" :> "corona funebre" @@
    "Dia de la Madre" :> "dia de la madre" @@
    "chocolate" :> "chocolate" @@
    "globo" :> "globo" @@
    "vino" :> "vino" @@
    "ramo" :> "ramo" @@
    "hola" :> "hola" @@
    "muestrame opciones" :> "muestrame opciones" @@
    "si" :> "si" @@
    "tienes chocolates" :> "tienes chocolates" @@
    "lo quiero" :> "lo quiero" @@
    "horario de tienda" :> "horario de tienda" @@
    "rosas para mi novia hasta 100 soles" :> "rosas para mi novia hasta 100 soles" @@
    "para cumple 150 soles" :> "para cumple 150 soles" @@
    "si para cumple 150 soles" :> "si para cumple 150 soles" @@
    " " :> " " @@
    "si al carrito" :> "si al carrito" @@
    "siempre" :> "siempre" @@
    "entre 100 y 200 soles" :> "entre 100 y 200 soles" @@
    "2 a 5 rosas" :> "2 a 5 rosas" @@
    "tengo 20 soles" :> "tengo 20 soles" @@
    "quiero 12 rosas" :> "quiero 12 rosas" @@
    "3 ramos hasta 80 soles" :> "3 ramos hasta 80 soles" @@
    "entre 20 y 40 soles" :> "entre 20 y 40 soles" @@
    "Hola! Que andas buscando?" :> "hola! que andas buscando?" @@
    "Online 24/7 con envio a todo Lima." :> "online 24/7 con envio a todo lima." @@
    "Tiendas:" :> "tiendas:" @@
    "Mira estas opciones:" :> "mira estas opciones:" @@
    "Si quieres, puedo agregarte chocolates Ferrero (S/35) o un peluche (desde S/79)." :> "si quieres, puedo agregarte chocolates ferrero (s/35) o un peluche (desde s/79)." @@
    "Tambien tenemos packs con flores y chocolates. Te muestro?" :> "tambien tenemos packs con flores y chocolates. te muestro?" @@
    "Para que ocasion seria?" :> "para que ocasion seria?" @@
    "Que lindo! Es para cumpleanos, para ninos, o regalo romantico?" :> "que lindo! es para cumpleanos, para ninos, o regalo romantico?" @@
    "Que andas buscando?" :> "que andas buscando?" @@
    "Y mas o menos cuanto pensabas gastar?" :> "y mas o menos cuanto pensabas gastar?" @@
    "Envio a todo Lima en 24-48h. Costo: S/15-25." :> "envio a todo lima en 24-48h. costo: s/15-25." @@
    "Tu carrito esta vacio. Que quieres agregar?" :> "tu carrito esta vacio. que quieres agregar?" @@
    "Cuentame mas. Que ocasion es y cuanto quieres gastar?" :> "cuentame mas. que ocasion es y cuanto quieres gastar?" @@
    "Lo siento, no pude procesar tu mensaje. Podrias repetirlo?" :> "lo siento, no pude procesar tu mensaje. podrias repetirlo?" @@
    "Aqui tienes los globos disponibles:" :> "aqui tienes los globos disponibles:" @@
    "Excelente eleccion! Te muestro los chocolates:" :> "excelente eleccion! te muestro los chocolates:" @@
    "Aqui tienes los peluches disponibles:" :> "aqui tienes los peluches disponibles:" @@
    "Hola" :> "hola" @@
    "Agregado al carrito" :> "agregado al carrito" @@
    "Te gustaria agregar un globo?" :> "te gustaria agregar un globo?" @@
    "Con S/150 te puedo mostrar mas opciones. Dale?" :> "con s/150 te puedo mostrar mas opciones. dale?" @@
    "Quieres un peluche?" :> "quieres un peluche?" @@
    "Quieres chocolates o un peluche?" :> "quieres chocolates o un peluche?" @@
    "Quieres globos, chocolates o un peluche?" :> "quieres globos, chocolates o un peluche?"

\* the keywords a message starts with (str.startswith on the lower-cased,
\* stripped message)
Prefijos ==
    "hola" :> {"hola"} @@
    "muestrame opciones" :> {"muestrame"} @@
    "si" :> {"si"} @@
    "tienes chocolates" :> {"tienes"} @@
    "lo quiero" :> {"lo quiero"} @@
    "horario de tienda" :> {"horario"} @@
    "rosas para mi novia hasta 100 soles" :> {"rosa", "rosas"} @@
    "para cumple 150 soles" :> {} @@
    "si para cumple 150 soles" :> {"si"} @@
    " " :> {} @@
    "si al carrito" :> {"si"} @@
    "siempre" :> {"si"} @@
    "entre 100 y 200 soles" :> {} @@
    "2 a 5 rosas" :> {} @@
    "tengo 20 soles" :> {} @@
    "quiero 12 rosas" :> {"quiero"} @@
    "3 ramos hasta 80 soles" :> {} @@
    "entre 20 y 40 soles" :> {}

\* str.strip() of a message
Recortados ==
    "hola" :> "hola" @@
    "muestrame opciones" :> "muestrame opciones" @@
    "si" :> "si" @@
    "tienes chocolates" :> "tienes chocolates" @@
    "lo quiero" :> "lo quiero" @@
    "horario de tienda" :> "horario de tienda" @@
    "rosas para mi novia hasta 100 soles" :> "rosas para mi novia hasta 100 soles" @@
    "para cumple 150 soles" :> "para cumple 150 soles" @@
    "si para cumple 150 soles" :> "si para cumple 150 soles" @@
    " " :> "" @@
    "si al carrito" :> "si al carrito" @@
    "siempre" :> "siempre" @@
    "entre 100 y 200 soles" :> "entre 100 y 200 soles" @@
    "2 a 5 rosas" :> "2 a 5 rosas" @@
    "tengo 20 soles" :> "tengo 20 soles" @@
    "quiero 12 rosas" :> "quiero 12 rosas" @@
    "3 ramos hasta 80 soles" :> "3 ramos hasta 80 soles" @@
    "entre 20 y 40 soles" :> "entre 20 y 40 soles"
\* END Subcadenas

\* needle in texto.lower(), for a lower-cased needle
Contiene(texto, needle) == needle = "" \/ needle \in Subcadenas[texto]

\* any(kw in texto.lower() for kw in kws)
ContieneAlguna(texto, kws) == \E kw \in kws : Contiene(texto, kw)

-----------------------------------------------------------------------------
(* The keyword dictionaries of src/services/ai_brain.py, in the order of    *)
(* the source, and what its regular expressions find in the messages of    *)
(* the vocabulary.                                                         *)

\* BEGIN Tablas
\* extraer_preferencias: ocasiones
ocasiones ==
    <<
      [clave |-> "Amistad",
       keywords |-> {"agradecer", "agradecimiento", "amiga", "amigo",
                     "amistad", "colega", "companera", "companero", "conocido",
                     "detalle", "gracias", "jefa", "jefe", "oficina",
                     "trabajo", "vecina", "vecino"}],
      [clave |-> "Amor",
       keywords |-> {"amor", "corazon", "enamorada", "enamorado", "esposa",
                     "esposo", "mi amor", "novia", "novio", "pareja",
                     "romantica", "romantico", "san valentin", "te amo",
                     "te quiero", "valentin"}],
      [clave |-> "Cumpleanyos",
       keywords |-> {"anos", "anyos", "birthday", "cumple", "cumpleanos",
                     "cumpleanyos", "felicitacion", "felicitar",
                     "feliz cumple"}],
      [clave |-> "Graduacion",
       keywords |-> {"bachiller", "colegio", "doctor", "egresada", "egresado",
                     "graduacion", "graduada", "graduado", "ingeniero",
                     "licenciado", "magister", "promocion", "titulo",
                     "universidad"}],
      [clave |-> "Aniversario",
       keywords |-> {"aniversario", "anniversary", "anos juntos",
                     "anyos juntos", "bodas", "celebrar", "fecha especial"}],
      [clave |-> "Condolencias",
       keywords |-> {"condolencias", "descanse en paz", "duelo",
                     "fallecimiento", "fallecio", "funeral", "luto", "muerte",
                     "murio", "pesame", "qepd", "sentido pesame", "sepelio",
                     "velorio"}],
      [clave |-> "Inauguraciones",
       keywords |-> {"apertura", "emprendimiento", "empresa nueva",
                     "inauguracion", "nueva tienda", "nuevo local",
                     "nuevo negocio", "oficina nueva"}],
      [clave |-> "Mejorate Pronto",
       keywords |-> {"animo", "clinica", "enferma", "enfermo", "fuerza",
                     "hospital", "mejorate", "operacion",
                     "pronta recuperacion", "recuperacion", "salud"}],
      [clave |-> "Nacimiento",
       keywords |-> {"baby shower", "bebe", "embarazada", "maternidad",
                     "nacimiento", "nacio", "nena", "nene", "parto",
                     "recien nacido"}],
      [clave |-> "Matrimonio",
       keywords |-> {"boda", "casamiento", "casarse", "civil", "compromiso",
                     "iglesia", "matrimonio", "novia", "novios",
                     "pedida de mano"}],
      [clave |-> "Para El",
       keywords |-> {"abuelo", "caballero", "cunado", "dia del padre",
                     "hermano", "hombre", "masculino", "padre", "papa",
                     "para el", "suegro", "tio", "varon"}],
      [clave |-> "Para su escritorio",
       keywords |-> {"decoracion", "decorar", "desk", "despacho", "escritorio",
                     "oficina", "preservada", "seca", "trabajo"}],
      [clave |-> "Para Ninyos",
       keywords |-> {"hija", "hijo", "infantil", "kids", "nietos", "nina",
                     "nino", "ninya", "ninyo", "pequenya", "pequenyo",
                     "sobrina", "sobrino"}],
      [clave |-> "Variado",
       keywords |-> {"adicional", "complemento", "extra", "globos"}]
    >>

\* extraer_preferencias: colores
colores_preferidos ==
    <<
      [clave |-> "rojo",
       keywords |-> {"red", "rojas", "rojo", "rojos"}],
      [clave |-> "rosa",
       keywords |-> {"fucsia", "pink", "rosa", "rosada", "rosado"}],
      [clave |-> "blanco",
       keywords |-> {"blanca", "blanco", "blancos", "crema", "white"}],
      [clave |-> "amarillo",
       keywords |-> {"amarilla", "amarillo", "amarillos", "yellow"}],
      [clave |-> "naranja",
       keywords |-> {"anaranjado", "naranja", "orange"}],
      [clave |-> "morado",
       keywords |-> {"lila", "morada", "morado", "purpura", "violeta"}],
      [clave |-> "azul",
       keywords |-> {"azul", "blue", "celeste"}],
      [clave |-> "variado",
       keywords |-> {"colores", "mix", "multicolor", "surtido", "variado"}]
    >>

\* extraer_preferencias: flores
flores_preferidas ==
    <<
      [clave |-> "rosas",
       keywords |-> {"rosa", "rosas", "rose", "roses"}],
      [clave |-> "tulipanes",
       keywords |-> {"tulipan", "tulipanes", "tulips"}],
      [clave |-> "girasoles",
       keywords |-> {"girasol", "girasoles", "sunflower"}],
      [clave |-> "orquideas",
       keywords |-> {"orchid", "orquidea", "orquideas"}],
      [clave |-> "liliums",
       keywords |-> {"lilium", "liliums", "lily", "lirio", "lirios"}],
      [clave |-> "astromelias",
       keywords |-> {"alstroemeria", "astromelia", "astromelias"}],
      [clave |-> "gladiolos",
       keywords |-> {"gladiolo", "gladiolos"}]
    >>

\* extraer_preferencias: tipos_producto
tipos_producto ==
    <<
      [clave |-> "Peluche",
       keywords |-> {"hugo", "kodi", "munyeco", "osito", "oso", "peluche"}],
      [clave |-> "Chocolates",
       keywords |-> {"bombones", "chocolate", "chocolates", "dulces",
                     "ferrero", "iberica"}],
      [clave |-> "Vino",
       keywords |-> {"blanco", "champagne", "espumante", "licor", "tinto",
                     "vino", "vinos"}],
      [clave |-> "Arreglo Floral",
       keywords |-> {"arreglo", "centro de mesa", "florero"}],
      [clave |-> "Ramo",
       keywords |-> {"bouquet", "ramillete", "ramo"}],
      [clave |-> "Caja Flores",
       keywords |-> {"box", "caja"}],
      [clave |-> "Corona Funebre",
       keywords |-> {"corona", "funebre", "lagrima"}],
      [clave |-> "Globos",
       keywords |-> {"globo", "globos"}]
    >>

\* _respuesta_demo: ocasion_map
ocasion_map ==
    <<
      [clave |-> "Cumpleanyos",
       keywords |-> {"birthday", "cumple", "cumpleanos", "cumpleanyos"}],
      [clave |-> "Aniversario",
       keywords |-> {"aniversario", "anniversary"}],
      [clave |-> "Amor",
       keywords |-> {"amor", "enamorada", "esposa", "esposo", "novia", "novio",
                     "romantico"}],
      [clave |-> "Dia de la Madre",
       keywords |-> {"dia de la madre", "madre", "mama"}],
      [clave |-> "Condolencias",
       keywords |-> {"condolencia", "fallecio", "funeral", "pesame"}],
      [clave |-> "Amistad",
       keywords |-> {"amiga", "amigo", "amistad"}],
      [clave |-> "Graduacion",
       keywords |-> {"egresado", "graduacion", "graduado"}],
      [clave |-> "Para Ninyos",
       keywords |-> {"bebe", "hija", "hijo", "ninya", "ninyo"}]
    >>

\* _detectar_nueva_solicitud: solicitudes
solicitudes ==
    <<
      [clave |-> "chocolate",
       keywords |-> {"bombones", "chocolate", "chocolates", "ferrero",
                     "iberica"}],
      [clave |-> "peluche",
       keywords |-> {"osito", "oso", "peluche", "peluches"}],
      [clave |-> "globo",
       keywords |-> {"globo", "globos"}],
      [clave |-> "vino",
       keywords |-> {"champagne", "espumante", "licor", "vino", "vinos"}],
      [clave |-> "flores",
       keywords |-> {"flor", "flores", "girasoles", "rosas", "tulipanes"}],
      [clave |-> "ramo",
       keywords |-> {"bouquet", "ramo", "ramos"}]
    >>

\* extraer_preferencias: the amount of the first pattern of patrones_precio
\* that matches with an amount >= 30
precio_match ==
    "hola" :> <<>> @@
    "muestrame opciones" :> <<>> @@
    "si" :> <<>> @@
    "tienes chocolates" :> <<>> @@
    "lo quiero" :> <<>> @@
    "horario de tienda" :> <<>> @@
    "rosas para mi novia hasta 100 soles" :> <<100>> @@
    "para cumple 150 soles" :> <<150>> @@
    "si para cumple 150 soles" :> <<150>> @@
    " " :> <<>> @@
    "si al carrito" :> <<>> @@
    "siempre" :> <<>> @@
    "entre 100 y 200 soles" :> <<200>> @@
    "2 a 5 rosas" :> <<>> @@
    "tengo 20 soles" :> <<>> @@
    "quiero 12 rosas" :> <<>> @@
    "3 ramos hasta 80 soles" :> <<80>> @@
    "entre 20 y 40 soles" :> <<40>>

\* extraer_preferencias: the two groups of the price range pattern
rango_match ==
    "hola" :> <<>> @@
    "muestrame opciones" :> <<>> @@
    "si" :> <<>> @@
    "tienes chocolates" :> <<>> @@
    "lo quiero" :> <<>> @@
    "horario de tienda" :> <<>> @@
    "rosas para mi novia hasta 100 soles" :> <<>> @@
    "para cumple 150 soles" :> <<>> @@
    "si para cumple 150 soles" :> <<>> @@
    " " :> <<>> @@
    "si al carrito" :> <<>> @@
    "siempre" :> <<>> @@
    "entre 100 y 200 soles" :> <<100, 200>> @@
    "2 a 5 rosas" :> <<2, 5>> @@
    "tengo 20 soles" :> <<>> @@
    "quiero 12 rosas" :> <<>> @@
    "3 ramos hasta 80 soles" :> <<>> @@
    "entre 20 y 40 soles" :> <<20, 40>>

\* _respuesta_demo: the first run of digits of the message
pres_match ==
    "hola" :> <<>> @@
    "muestrame opciones" :> <<>> @@
    "si" :> <<>> @@
    "tienes chocolates" :> <<>> @@
    "lo quiero" :> <<>> @@
    "horario de tienda" :> <<>> @@
    "rosas para mi novia hasta 100 soles" :> <<100>> @@
    "para cumple 150 soles" :> <<150>> @@
    "si para cumple 150 soles" :> <<150>> @@
    " " :> <<>> @@
    "si al carrito" :> <<>> @@
    "siempre" :> <<>> @@
    "entre 100 y 200 soles" :> <<100>> @@
    "2 a 5 rosas" :> <<2>> @@
    "tengo 20 soles" :> <<20>> @@
    "quiero 12 rosas" :> <<12>> @@
    "3 ramos hasta 80 soles" :> <<3>> @@
    "entre 20 y 40 soles" :> <<20>>

\* _respuesta_demo: the amount after s/ in what the assistant said
sugerido_match ==
    "Hola! Que andas buscando?" :> <<>> @@
    "Online 24/7 con envio a todo Lima." :> <<>> @@
    "Tiendas:" :> <<>> @@
    "Mira estas opciones:" :> <<>> @@
    "Si quieres, puedo agregarte chocolates Ferrero (S/35) o un peluche (desde S/79)." :> <<35>> @@
    "Tambien tenemos packs con flores y chocolates. Te muestro?" :> <<>> @@
    "Para que ocasion seria?" :> <<>> @@
    "Que lindo! Es para cumpleanos, para ninos, o regalo romantico?" :> <<>> @@
    "Que andas buscando?" :> <<>> @@
    "Y mas o menos cuanto pensabas gastar?" :> <<>> @@
    "Envio a todo Lima en 24-48h. Costo: S/15-25." :> <<15>> @@
    "Tu carrito esta vacio. Que quieres agregar?" :> <<>> @@
    "Cuentame mas. Que ocasion es y cuanto quieres gastar?" :> <<>> @@
    "Lo siento, no pude procesar tu mensaje. Podrias repetirlo?" :> <<>> @@
    "Aqui tienes los globos disponibles:" :> <<>> @@
    "Excelente eleccion! Te muestro los chocolates:" :> <<>> @@
    "Aqui tienes los peluches disponibles:" :> <<>> @@
    "Hola" :> <<>> @@
    "Agregado al carrito" :> <<>> @@
    "Te gustaria agregar un globo?" :> <<>> @@
    "Con S/150 te puedo mostrar mas opciones. Dale?" :> <<150>> @@
    "Quieres un peluche?" :> <<>> @@
    "Quieres chocolates o un peluche?" :> <<>> @@
    "Quieres globos, chocolates o un peluche?" :> <<>>
\* END Tablas

-----------------------------------------------------------------------------
(* Conversacion and its contexto dictionary (src/database/models.py).       *)

\* contexto.get(k, d)
Get(contexto, k, d) == IF k \in DOMAIN contexto THEN contexto[k] ELSE d

\* Conversacion.actualizar_contexto: contexto[k] = v
actualizar_contexto(contexto, k, v) ==
    [x \in (DOMAIN contexto) \cup {k} |-> IF x = k THEN v ELSE contexto[x]]

\* contexto.pop(k, None)
Pop(contexto, k) == [x \in (DOMAIN contexto) \ {k} |-> contexto[x]]

ContextoVacio == [x \in {} |-> ""]

\* the context holding exactly the facets given ("" and 0 stand for absent)
ContextoDe(ocasion, tipo, flor, color, pmin, pmax) ==
    LET claves == (IF ocasion = "" THEN {} ELSE {"ocasion"})
              \cup (IF tipo = "" THEN {} ELSE {"tipo_producto"})
              \cup (IF flor = "" THEN {} ELSE {"flor_preferida"})
              \cup (IF color = "" THEN {} ELSE {"color_preferido"})
              \cup (IF pmin = 0 THEN {} ELSE {"presupuesto_min"})
              \cup (IF pmax = 0 THEN {} ELSE {"presupuesto_max"})
    IN [k \in claves |->
            CASE k = "ocasion" -> ocasion
              [] k = "tipo_producto" -> tipo
              [] k = "flor_preferida" -> flor
              [] k = "color_preferido" -> color
              [] k = "presupuesto_min" -> pmin
              [] OTHER -> pmax]

\* Conversacion(...) as obtener_conversacion creates it; carrito may be None
ConversacionNueva(contexto) ==
    [mensajes |-> <<>>,
     carrito  |-> [existe |-> FALSE, items |-> <<>>],
     contexto |-> contexto]

-----------------------------------------------------------------------------
(* The catalog behind MCPToolboxService (src/services/mcp_toolbox.py).  The *)
(* toolbox server is external: a run fixes what it answers to each query.   *)
(* call_tool catches every failure and _parse_result then yields []; so an  *)
(* unreachable server answers every call with the empty list.               *)

FilaColor(id, nombre, precio, categoria, tipo, color) ==
    [ID |-> id, Producto |-> nombre, Precio_final |-> precio,
     Categoria |-> categoria, Tipo |-> tipo, Color |-> color]

Fila(id, nombre, precio, categoria, tipo) ==
    FilaColor(id, nombre, precio, categoria, tipo, "")

F26 == Fila("26", "Caja con 12 rosas", 50, "Amor", "Ramo")
F27 == Fila("27", "Ramo de tulipanes", 120, "Amistad", "Ramo")
F28 == Fila("28", "Girasoles", 130, "Cumpleanyos", "Ramo")
F29 == Fila("29", "Orquidea", 200, "Amor", "Arreglo Floral")
F30 == Fila("30", "Lirios", 60, "Amistad", "Ramo")
F31 == Fila("31", "Vino tinto", 70, "Variado", "Ramo")
F40 == Fila("40", "Chocolates Ferrero", 35, "Variado", "Chocolates")
F41 == Fila("41", "Oso de peluche", 79, "Amistad", "Peluche")
F42 == FilaColor("42", "Ramo de rosas", 90, "Flores", "Ramo", "Rosa")
F43 == Fila("43", "Globo corazon", 15, "Variado", "Globos")
F44 == Fila("44", "Globo feliz cumple", 15, "Cumpleanyos", "Globos")

FilasBase == {F26, F27, F28, F29}
ListaLarga == <<F30, F26, F31, F27, F28, F29>>

\* Bound: the longest answer list built from FilasBase in every order.
MaxResultados == 3

\* every list of distinct rows of FilasBase of length <= MaxResultados
ListasCombinadas ==
    {l \in UNION {[1..n -> FilasBase] : n \in 0..MaxResultados} :
        \A i, j \in DOMAIN l : i # j => l[i] # l[j]}

TerminosComplemento == {"chocolates", "peluche", "rosas", "globos"}

\* MCPToolboxService.is_available
is_available(m) == m.disponible

\* MCPToolboxService.buscar_productos; the query is the sequence of the
\* parts the code joins with " ".  The server answers m.lista to a query of
\* several parts, m.faceta to a query of one part, and its complement rows
\* to the fixed complement queries of the code.
buscar_productos(m, query) ==
    IF ~m.disponible THEN <<>>
    ELSE IF Len(query) = 1 /\ query[1] \in TerminosComplemento
    THEN IF query[1] \notin m.complementos THEN <<>>
         ELSE CASE query[1] = "chocolates" -> <<F40>>
                [] query[1] = "peluche" -> <<F41>>
                [] query[1] = "rosas" -> <<F42>>
                [] OTHER -> IF m.globo_cumple THEN <<F43, F44>> ELSE <<F43>>
    ELSE IF Len(query) > 1 THEN m.lista ELSE m.faceta

\* MCPToolboxService.productos_economicos
productos_economicos(m, limite) ==
    IF m.disponible THEN Primeros(m.economicos, limite) ELSE <<>>

\* MCPToolboxService.productos_con_descuento
productos_con_descuento(m) == IF m.disponible THEN m.descuentos ELSE <<>>

\* the unreachable server: call_tool catches the failure, every answer is []
McpCaido ==
    [disponible |-> FALSE, lista |-> <<>>, faceta |-> <<>>, economicos |-> <<>>,
     complementos |-> {}, globo_cumple |-> FALSE, descuentos |-> <<>>]

-----------------------------------------------------------------------------
(* Ordering.  sorted(xs, key=...) is stable and ascending; a key is a pair  *)
(* compared lexicographically (False < True is 0 < 1).                      *)

ClaveMenor(a, b) == a[1] < b[1] \/ (a[1] = b[1] /\ a[2] < b[2])

\* the stable ascending sort of s by the keys claves (one per element)
OrdenarPorClave(s, claves) ==
    LET pos(i) == 1 + Cardinality({j \in DOMAIN s :
                        \/ ClaveMenor(claves[j], claves[i])
                        \/ (claves[j] = claves[i] /\ j < i)})
    IN [k \in DOMAIN s |-> s[CHOOSE i \in DOMAIN s : pos(i) = k]]

-----------------------------------------------------------------------------
(* AIBrain._buscar_productos_proactivo (src/services/ai_brain.py).          *)

KwBusquedaExplicita ==
    {"muestrame", "mostrar", "ver opciones", "que tienes", "opciones",
     "quiero ver", "tienen"}

\* a search that waits for an explicit request to see products
contexto_suficiente_solo_explicita(msg, contexto) ==
    ContieneAlguna(msg, KwBusquedaExplicita)

\* a rule that asks for an occasion besides the budget
contexto_suficiente_con_ocasion(msg, contexto) ==
    \/ /\ "ocasion" \in DOMAIN contexto
       /\ \/ "presupuesto_min" \in DOMAIN contexto
          \/ "presupuesto_max" \in DOMAIN contexto
    \/ ContieneAlguna(msg, KwBusquedaExplicita)

\* lines 559-578: is the context sufficient to query the catalog
contexto_suficiente(msg, contexto) ==
    LET tiene_ocasion == "ocasion" \in DOMAIN contexto
        tiene_preferencia == \/ "color_preferido" \in DOMAIN contexto
                             \/ "flor_preferida" \in DOMAIN contexto
                             \/ "tipo_producto" \in DOMAIN contexto
        tiene_presupuesto == \/ "presupuesto_min" \in DOMAIN contexto
                             \/ "presupuesto_max" \in DOMAIN contexto
        busqueda_explicita == ContieneAlguna(msg, KwBusquedaExplicita)
        tiene_tipo == "tipo_producto" \in DOMAIN contexto
    IN \/ (tiene_ocasion /\ tiene_presupuesto)
       \/ (tiene_tipo /\ tiene_presupuesto)
       \/ (tiene_preferencia /\ tiene_presupuesto)
       \/ busqueda_explicita

\* lines 587-597 (and 268-276): the facets present, in priority order
query_parts(contexto) ==
    (IF "tipo_producto" \in DOMAIN contexto THEN <<contexto["tipo_producto"]>> ELSE <<>>)
    \o (IF "flor_preferida" \in DOMAIN contexto THEN <<contexto["flor_preferida"]>> ELSE <<>>)
    \o (IF "ocasion" \in DOMAIN contexto THEN <<contexto["ocasion"]>> ELSE <<>>)
    \o (IF "color_preferido" \in DOMAIN contexto THEN <<contexto["color_preferido"]>> ELSE <<>>)

\* line 599: the joined facets, or the raw message
query_proactivo(msg, contexto) ==
    IF query_parts(contexto) # <<>> THEN query_parts(contexto) ELSE <<msg>>

PresupuestoPorDefecto == 500

\* lines 600 and 279: float(contexto.get("presupuesto_max", 500))
presupuesto_de(contexto) == Get(contexto, "presupuesto_max", PresupuestoPorDefecto)

\* lines 602-620: the main search with its two fallbacks
productos_principales(msg, contexto, m) ==
    IF ~is_available(m) THEN <<>>
    ELSE
    LET parts == query_parts(contexto)
        p1 == buscar_productos(m, query_proactivo(msg, contexto))
        p2 == IF p1 = <<>> /\ Len(parts) > 1
              THEN IF "ocasion" \in DOMAIN contexto
                   THEN buscar_productos(m, <<contexto["ocasion"]>>)
                   ELSE IF "tipo_producto" \in DOMAIN contexto
                        THEN buscar_productos(m, <<contexto["tipo_producto"]>>)
                        ELSE p1
              ELSE p1
    IN IF p2 = <<>> THEN productos_economicos(m, 10) ELSE p2

\* lines 581-618: the requests the search sends to the catalog server, in
\* order: none when the context is not sufficient, else the availability
\* test and, on a reachable server, the main search with its fallbacks
servicio_proactivo(msg, contexto, m) ==
    IF ~contexto_suficiente(msg, contexto) THEN <<>>
    ELSE IF ~is_available(m) THEN <<"is_available">>
    ELSE
    LET parts == query_parts(contexto)
        p1 == buscar_productos(m, query_proactivo(msg, contexto))
        otra == p1 = <<>> /\ Len(parts) > 1
                /\ ("ocasion" \in DOMAIN contexto \/ "tipo_producto" \in DOMAIN contexto)
        p2 == IF ~otra THEN p1
              ELSE IF "ocasion" \in DOMAIN contexto
              THEN buscar_productos(m, <<contexto["ocasion"]>>)
              ELSE buscar_productos(m, <<contexto["tipo_producto"]>>)
    IN <<"is_available", "buscar_productos">>
       \o (IF otra THEN <<"buscar_productos">> ELSE <<>>)
       \o (IF p2 = <<>> THEN <<"productos_economicos">> ELSE <<>>)

\* a drifted filter: the 1.2 tolerance of the fallback search
filtrar_por_presupuesto_tolerante(productos, presupuesto) ==
    LET cabe(p) == 10 * p.Precio_final <= 12 * presupuesto
    IN SelectSeq(productos, cabe)

\* lines 625-635: keep the candidates with precio <= presupuesto
filtrar_por_presupuesto(productos, presupuesto) ==
    LET cabe(p) == p.Precio_final <= presupuesto
    IN SelectSeq(productos, cabe)

\* lines 637-650: none in budget: the three cheapest, ascending
mas_cercanos(productos) ==
    Primeros(OrdenarPorClave(productos,
                [i \in DOMAIN productos |-> <<0, productos[i].Precio_final>>]), 3)

\* lines 625-652: the candidates that go into the excerpt
productos_filtrados(productos, presupuesto) ==
    LET f == filtrar_por_presupuesto(productos, presupuesto)
    IN Primeros(IF f = <<>> THEN mas_cercanos(productos) ELSE f, 5)

\* _formatear_resultado_busqueda: one [PRODUCTO:id|nombre|precio|imagen]
\* line per result, at most five (the image is not modelled)
formatear_resultado_busqueda(resultados) ==
    LET r == Primeros(resultados, 5)
    IN [i \in DOMAIN r |-> [id |-> r[i].ID, nombre |-> r[i].Producto,
                            precio |-> r[i].Precio_final]]

\* lines 657-694: the cross-sell candidates, in the order the code finds them
complementos_de(msg, contexto, m) ==
    LET ocasion == Get(contexto, "ocasion", "")
        tipo == Get(contexto, "tipo_producto", "")
        query == query_proactivo(msg, contexto)
        enQuery(kws) == \E i \in DOMAIN query : ContieneAlguna(query[i], kws)
        choco == buscar_productos(m, <<"chocolates">>)
        peluche == buscar_productos(m, <<"peluche">>)
        flores == buscar_productos(m, <<"rosas">>)
        globos == buscar_productos(m, <<"globos">>)
        descuentos == Primeros(productos_con_descuento(m), 2)
        esCumple(g) == Contiene(g.Producto, "cumple")
        globo_cumple ==
            IF \E i \in DOMAIN globos : esCumple(globos[i])
            THEN SelectSeq(globos, esCumple)[1] ELSE globos[1]
        relevante(d) == \/ Contiene(d.Categoria, Minusculas[ocasion])
                        \/ Contiene(ocasion, Minusculas[d.Categoria])
        c1 == IF \/ ContieneAlguna(tipo, {"flor", "ramo", "arreglo", "rosas"})
                 \/ enQuery({"rosa", "tulipan", "girasol", "flor"})
              THEN (IF choco # <<>> THEN <<choco[1]>> ELSE <<>>)
                   \o (IF peluche # <<>> THEN <<peluche[1]>> ELSE <<>>)
              ELSE IF Contiene(tipo, "peluche") \/ enQuery({"peluche"})
                   THEN (IF flores # <<>> THEN <<flores[1]>> ELSE <<>>)
                   ELSE <<>>
        c2 == IF Contiene(ocasion, "cumple") /\ globos # <<>>
              THEN <<globo_cumple>> ELSE <<>>
        c3 == IF \E i \in DOMAIN descuentos : relevante(descuentos[i])
              THEN <<SelectSeq(descuentos, relevante)[1]>> ELSE <<>>
    IN c1 \o c2 \o c3

\* lines 709-718: the card kept in contexto["upsell_producto"]
upsell_producto_de(prod) ==
    [id |-> prod.ID, nombre |-> prod.Producto, precio_num |-> prod.Precio_final,
     categoria |-> prod.Categoria, tipo |-> prod.Tipo, es_upsell |-> TRUE]

\* the string "" the function returns when it has nothing to offer
ExtractoVacio == [vacio |-> TRUE, lineas |-> <<>>, cross_sell |-> FALSE]

\* a plausible change: do not offer again the complement offered last time
buscar_productos_proactivo_sin_repetir(msg, contexto, m) ==
    LET principales == productos_principales(msg, contexto, m)
        todos == complementos_de(msg, contexto, m)
        nuevo(c) == c.ID # Get(contexto, "ultimo_upsell_id", "")
        complementos == SelectSeq(todos, nuevo)
    IN IF ~contexto_suficiente(msg, contexto) \/ principales = <<>>
       THEN [extracto |-> ExtractoVacio, contexto |-> contexto]
       ELSE [extracto |->
                [vacio |-> FALSE,
                 lineas |-> formatear_resultado_busqueda(
                     productos_filtrados(principales, presupuesto_de(contexto))),
                 cross_sell |-> complementos # <<>>],
             contexto |->
                IF complementos = <<>> THEN contexto
                ELSE actualizar_contexto(
                        actualizar_contexto(contexto, "upsell_producto",
                                            upsell_producto_de(complementos[1])),
                        "ultimo_upsell_id", complementos[1].ID)]

\* AIBrain._buscar_productos_proactivo: the excerpt it returns and the
\* context it leaves
buscar_productos_proactivo(msg, contexto, m) ==
    LET principales == productos_principales(msg, contexto, m)
        complementos == complementos_de(msg, contexto, m)
    IN IF ~contexto_suficiente(msg, contexto) \/ principales = <<>>
       THEN [extracto |-> ExtractoVacio, contexto |-> contexto]
       ELSE [extracto |->
                [vacio |-> FALSE,
                 lineas |-> formatear_resultado_busqueda(
                     productos_filtrados(principales, presupuesto_de(contexto))),
                 cross_sell |-> complementos # <<>>],
             contexto |->
                IF complementos = <<>> THEN contexto
                ELSE actualizar_contexto(
                        actualizar_contexto(contexto, "upsell_producto",
                                            upsell_producto_de(complementos[1])),
                        "ultimo_upsell_id", complementos[1].ID)]

-----------------------------------------------------------------------------
(* AIBrain._buscar_productos_fallback (src/services/ai_brain.py).           *)

\* the elements of s at the indices K, in order
Subsecuencia(s, K) ==
    [k \in 1..Cardinality(K) |->
        s[CHOOSE i \in K : Cardinality({j \in K : j <= i}) = k]]

\* lines 308-313: append the alternatives whose ID has not been seen
combinar_sin_duplicados(productos_raw, alternativas) ==
    LET vistos == {productos_raw[i].ID : i \in DOMAIN productos_raw}
        nuevos == {i \in DOMAIN alternativas :
                      /\ alternativas[i].ID \notin vistos
                      /\ \A j \in 1..(i - 1) : alternativas[j].ID # alternativas[i].ID}
    IN productos_raw \o Subsecuencia(alternativas, nuevos)

\* lines 283-316: the candidates the fallback search works on
candidatos_fallback(contexto, m) ==
    LET raw == buscar_productos(m, query_parts(contexto))
        alternativas ==
            (IF "tipo_producto" \in DOMAIN contexto
             THEN buscar_productos(m, <<contexto["tipo_producto"]>>) ELSE <<>>)
            \o (IF "flor_preferida" \in DOMAIN contexto
                THEN buscar_productos(m, <<contexto["flor_preferida"]>>) ELSE <<>>)
            \o (IF "ocasion" \in DOMAIN contexto
                THEN buscar_productos(m, <<contexto["ocasion"]>>) ELSE <<>>)
        combinados == IF Len(raw) < 3
                      THEN combinar_sin_duplicados(raw, alternativas) ELSE raw
    IN IF combinados = <<>> THEN productos_economicos(m, 5) ELSE combinados

\* a stricter flag: no tolerance over the budget
en_presupuesto_estricto(precio, presupuesto) == precio <= presupuesto

\* line 335: precio <= presupuesto * 1.2
en_presupuesto(precio, presupuesto) == 10 * precio <= 12 * presupuesto

\* lines 327-336: the card built for a row
tarjeta_fallback(p, presupuesto) ==
    [id |-> p.ID, nombre |-> p.Producto, precio_num |-> p.Precio_final,
     categoria |-> p.Categoria, tipo |-> p.Tipo,
     en_presupuesto |-> en_presupuesto(p.Precio_final, presupuesto)]

\* AIBrain._buscar_productos_fallback
buscar_productos_fallback(contexto, m) ==
    IF "presupuesto_max" \notin DOMAIN contexto THEN <<>>
    ELSE IF {"ocasion", "tipo_producto", "color_preferido", "flor_preferida"}
                \cap DOMAIN contexto = {} THEN <<>>
    ELSE
    LET cands == candidatos_fallback(contexto, m)
        productos_con_precio ==
            [i \in DOMAIN cands |-> tarjeta_fallback(cands[i], presupuesto_de(contexto))]
        claves == [i \in DOMAIN cands |->
                    <<IF productos_con_precio[i].en_presupuesto THEN 0 ELSE 1,
                      productos_con_precio[i].precio_num>>]
    IN Primeros(OrdenarPorClave(productos_con_precio, claves), 3)

-----------------------------------------------------------------------------
(* BigQueryService (src/services/bigquery_service.py).  bq.conectado is     *)
(* BigQueryConnection.is_connected and bq.filas what the table holds; a     *)
(* failing query is caught by execute_query and answers [], as an empty     *)
(* table does.  Without a connection the service answers from its demo     *)
(* rows (two of the eight are kept; 80.10 is written 80).                   *)

D1 == FilaColor("ROSA-001", "Ramo de 12 Rosas Rojas", 80, "Flores", "Ramo", "Rojo")
D5 == FilaColor("PELUCH-001", "Oso de Peluche Grande", 59, "Peluches", "Oso", "Beige")

demo_products == <<D1, D5>>

BqCaido == [conectado |-> FALSE, filas |-> <<>>]

\* Producto(**row)
ProductoDe(f) ==
    [id |-> f.ID, producto |-> f.Producto, precio_final |-> f.Precio_final,
     categoria |-> f.Categoria, tipo |-> f.Tipo, color |-> f.Color]

\* Producto(**row) for every row
Productos(filas) == [i \in DOMAIN filas |-> ProductoDe(filas[i])]

\* BigQueryService.obtener_producto; <<>> stands for None
obtener_producto(b, producto_id) ==
    LET esId(f) == f.ID = producto_id
    IN Productos(Primeros(SelectSeq(IF b.conectado THEN b.filas ELSE demo_products,
                                    esId), 1))

\* BigQueryService.buscar_productos / _buscar_demo ("" stands for None);
\* the table answers in ascending price order, the demo rows in their own
\* ORDER BY Precio_final ASC
PorPrecio(filas) ==
    OrdenarPorClave(filas, [i \in DOMAIN filas |-> <<0, filas[i].Precio_final>>])

bq_buscar_productos(b, query, categoria, color, limit) ==
    LET coincide(f) ==
            /\ \/ query = ""
               \/ \E campo \in {"Producto", "Categoria", "Tipo", "Color"} :
                     Contiene(f[campo], Minusculas[query])
            /\ categoria = "" \/ Minusculas[f.Categoria] = Minusculas[categoria]
            /\ color = "" \/ Contiene(f.Color, Minusculas[color])
    IN IF b.conectado
       THEN Productos(Primeros(PorPrecio(SelectSeq(b.filas, coincide)), limit))
       ELSE Productos(Primeros(SelectSeq(demo_products, coincide), limit))

-----------------------------------------------------------------------------
(* AIBrain._ejecutar_busqueda and _parsear_busqueda.  No query of the       *)
(* vocabulary holds a price range, so precio_min and precio_max stay None.  *)

\* lines 1011-1023: the first keyword of categorias_keywords in the query
categoria_de(query) ==
    IF ContieneAlguna(query, {"flores", "rosas", "tulipanes", "girasoles", "orquideas"})
    THEN "Flores"
    ELSE IF ContieneAlguna(query, {"peluches", "osos"}) THEN "Peluches"
    ELSE IF Contiene(query, "chocolates") THEN "Chocolates"
    ELSE IF Contiene(query, "combos") THEN "Combos"
    ELSE ""

colores ==
    <<"rojo", "rosa", "blanco", "amarillo", "naranja", "morado", "azul", "multicolor">>

Capitalizado ==
    "rojo" :> "Rojo" @@ "rosa" :> "Rosa" @@ "blanco" :> "Blanco" @@
    "amarillo" :> "Amarillo" @@ "naranja" :> "Naranja" @@ "morado" :> "Morado" @@
    "azul" :> "Azul" @@ "multicolor" :> "Multicolor"

\* lines 1025-1030: the first color of the list in the query, capitalized
color_de(query) ==
    IF \E i \in DOMAIN colores : Contiene(query, colores[i])
    THEN Capitalizado[colores[CHOOSE i \in DOMAIN colores :
            /\ Contiene(query, colores[i])
            /\ \A j \in 1..(i - 1) : ~Contiene(query, colores[j])]]
    ELSE ""

\* AIBrain._parsear_busqueda
parsear_busqueda(b, query) ==
    bq_buscar_productos(b, query, categoria_de(query), color_de(query), 5)

\* AIBrain._ejecutar_busqueda
ejecutar_busqueda(query, m, b) ==
    IF is_available(m) /\ buscar_productos(m, <<query>>) # <<>>
    THEN Productos(Primeros(buscar_productos(m, <<query>>), 5))
    ELSE parsear_busqueda(b, query)

-----------------------------------------------------------------------------
(* The text the language model writes.  It is a sequence of tokens: plain   *)
(* words and directives.  A directive token stands for the whole bracketed  *)
(* tag, so two equal tokens are two occurrences of the same string.  Tags   *)
(* are atomic: no tag of the vocabulary holds "[" or "]" inside a field.    *)
(* Fields: k the kind, a/b/c the first three pipe-delimited fields, n the   *)
(* number of fields.                                                        *)

Tok(k, a, b, c, n) == [k |-> k, a |-> a, b |-> b, c |-> c, n |-> n]

Texto(t) == Tok("texto", t, "", "", 0)
TagProducto(id, nombre, precio, n) == Tok("PRODUCTO", id, nombre, precio, n)
TagBuscar(query) == Tok("BUSCAR_PRODUCTO", query, "", "", 1)
TagAgregar(id, nombre, precio, n) == Tok("AGREGAR_CARRITO", id, nombre, precio, n)
TagCheckout(codigo) == Tok("CHECKOUT", codigo, "", "", 1)
TagVerCarrito == Tok("VER_CARRITO", "", "", "", 0)
TagGenerarCheckout == Tok("GENERAR_CHECKOUT", "", "", "", 0)
NuevaBurbuja == Tok("NUEVA_BURBUJA", "", "", "", 0)
\* a piece of white space
Espacio == Tok("espacio", "", "", "", 0)

\* str.strip(): the white space at both ends goes
strip(texto) ==
    LET negros == {i \in DOMAIN texto : texto[i].k # "espacio"}
    IN IF negros = {} THEN <<>>
       ELSE SubSeq(texto, CHOOSE i \in negros : \A j \in negros : i <= j,
                          CHOOSE i \in negros : \A j \in negros : j <= i)

\* needle in texto.lower(), for a needle that sits inside one plain piece
texto_contiene(texto, needle) ==
    \E i \in DOMAIN texto : texto[i].k = "texto" /\ Contiene(texto[i].a, needle)

DeTipo(texto, k) == LET es(t) == t.k = k IN SelectSeq(texto, es)

\* str.replace(tag, nuevo): every occurrence of that exact tag
Sustituir(texto, tag, nuevo) ==
    [i \in DOMAIN texto |-> IF texto[i] = tag THEN nuevo ELSE texto[i]]

\* re.sub(pattern, nuevo, texto) for a pattern without fields
SustituirTipo(texto, k, nuevo) ==
    [i \in DOMAIN texto |-> IF texto[i].k = k THEN nuevo ELSE texto[i]]

\* str.replace(tag, "")
Quitar(texto, tag) == LET otro(t) == t # tag IN SelectSeq(texto, otro)

\* s.replace(".", "") for the price texts of the vocabulary
SinPuntos ==
    "50" :> "50" @@ "120" :> "120" @@ "80" :> "80" @@ "10" :> "10" @@
    "15" :> "15" @@ "35" :> "35" @@ "60" :> "60" @@ "70" :> "70" @@
    "79" :> "79" @@ "90" :> "90" @@ "130" :> "130" @@ "200" :> "200" @@
    "gratis" :> "gratis" @@ "1.2.3" :> "123" @@ "" :> ""

\* str.isdigit()
isdigit(s) ==
    s \in {"26", "27", "28", "999", "50", "120", "80", "10", "123",
           "15", "35", "60", "70", "79", "90", "130", "200"}

\* float(s), defined on the texts float() accepts
Flotante ==
    "50" :> 50 @@ "120" :> 120 @@ "80" :> 80 @@ "10" :> 10 @@
    "15" :> 15 @@ "35" :> 35 @@ "60" :> 60 @@ "70" :> 70 @@
    "79" :> 79 @@ "90" :> 90 @@ "130" :> 130 @@ "200" :> 200

\* _generar_codigo_carrito: "RST" and eight of A-Z0-9, drawn at random
CodigosGenerados == {"RSTA1B2C3D4", "RSTZZZZ0000"}

checkout_url(codigo) == [base |-> "https://rosatel.pe/checkout/", codigo |-> codigo]

-----------------------------------------------------------------------------
(* AIBrain._procesar_acciones.  The result is the tuple it returns, or the  *)
(* exception it raises (error # ""), with the cart and context it leaves.   *)

\* lines 853-864: the display record of a [PRODUCTO:...] tag
producto_display(tag) ==
    [id |-> tag.a, nombre |-> tag.b,
     precio_num |-> IF isdigit(SinPuntos[tag.c]) THEN Flotante[tag.c] ELSE 0]

\* lines 884-892: the display record of a search result
prod_display(p) == [id |-> p.id, nombre |-> p.producto, precio_num |-> p.precio_final]

\* lines 848-873: every [PRODUCTO:id|nombre|precio|url] tag with >= 3 fields
acciones_producto(resp, st) ==
    LET bien(t) == t.k = "PRODUCTO" /\ t.n >= 3
        producto_matches == SelectSeq(resp, bien)
        error_float == \E i \in DOMAIN producto_matches :
                          /\ isdigit(SinPuntos[producto_matches[i].c])
                          /\ producto_matches[i].c \notin DOMAIN Flotante
        productos == [i \in DOMAIN producto_matches |->
                         producto_display(producto_matches[i])]
    IN IF error_float THEN [st EXCEPT !.error = "ValueError"]
       ELSE [st EXCEPT
                !.texto = [i \in DOMAIN resp |->
                              IF bien(resp[i])
                              THEN Tok("producto_formateado", "", resp[i].b, resp[i].c, 0)
                              ELSE resp[i]],
                !.productos = productos,
                !.acciones = [i \in DOMAIN productos |->
                                 [tipo |-> "mostrar_producto", producto |-> productos[i]]]]

\* lines 875-900: the first [BUSCAR_PRODUCTO:query] tag
\* lines 881-900: the text, display records and effect of a search
busqueda_hecha(st, tag, productos_encontrados) ==
    LET mostrados == Primeros(productos_encontrados, 3) IN
    [st EXCEPT
        !.texto = Sustituir(@, tag,
                    IF productos_encontrados # <<>>
                    THEN Tok("lista_productos", "", "", "", 0)
                    ELSE Tok("no_encontre", "", "", "", 0)),
        !.productos = @ \o [i \in DOMAIN mostrados |-> prod_display(mostrados[i])],
        !.acciones = Append(@, [tipo |-> "buscar", query |-> tag.a,
                                resultados |-> Len(productos_encontrados)])]

acciones_buscar(resp, st, m, b) ==
    LET buscar == DeTipo(resp, "BUSCAR_PRODUCTO")
    IN IF st.error # "" \/ buscar = <<>> THEN st
       ELSE busqueda_hecha(st, buscar[1], ejecutar_busqueda(buscar[1].a, m, b))

\* lines 916-925: the product of a tag, by id when the id is a number, else
\* by name; <<>> stands for None
resolver_producto(tag, b) ==
    LET nombre == IF tag.n > 1 THEN tag.b ELSE "Producto"
    IN IF isdigit(tag.a) /\ obtener_producto(b, tag.a) # <<>>
       THEN obtener_producto(b, tag.a)
       ELSE IF nombre # "" THEN bq_buscar_productos(b, nombre, "", "", 1) ELSE <<>>

\* an addition that leaves the context as it was
agregar_resuelto_sin_limpiar(st, tag, producto) ==
    LET precio == IF tag.n > 2 /\ tag.c \in DOMAIN Flotante THEN Flotante[tag.c] ELSE 0
    IN IF producto = <<>> THEN [st EXCEPT !.texto = Quitar(@, tag)]
       ELSE [st EXCEPT
                !.texto = Quitar(@, tag),
                !.carrito = [existe |-> TRUE,
                             items |-> agregar_item(st.carrito.items, producto[1], 1)],
                !.acciones = Append(@, [tipo |-> "agregar_carrito",
                                        producto_id |-> producto[1].id,
                                        nombre |-> producto[1].producto,
                                        precio |-> precio])]

\* lines 902-941: the first [AGREGAR_CARRITO:id|nombre|precio] tag
\* lines 913-941: the tag leaves the text; a product found goes to the cart
agregar_resuelto(st, tag, producto) ==
    LET precio == IF tag.n > 2 /\ tag.c \in DOMAIN Flotante THEN Flotante[tag.c] ELSE 0
    IN IF producto = <<>> THEN [st EXCEPT !.texto = Quitar(@, tag)]
       ELSE [st EXCEPT
                !.texto = Quitar(@, tag),
                !.carrito = [existe |-> TRUE,
                             items |-> agregar_item(st.carrito.items, producto[1], 1)],
                !.contexto = Pop(@, "ultimo_upsell_id"),
                !.acciones = Append(@, [tipo |-> "agregar_carrito",
                                        producto_id |-> producto[1].id,
                                        nombre |-> producto[1].producto,
                                        precio |-> precio])]

RECURSIVE agregar_cada(_, _, _)
\* every tag of the list applied in turn
agregar_cada(tags, st, b) ==
    IF tags = <<>> THEN st
    ELSE agregar_cada(Tail(tags),
                      agregar_resuelto(st, tags[1], resolver_producto(tags[1], b)), b)

\* a step that applies every [AGREGAR_CARRITO:...] tag of the text
acciones_agregar_todos(resp, st, b) ==
    IF st.error # "" THEN st
    ELSE agregar_cada(DeTipo(resp, "AGREGAR_CARRITO"), st, b)

acciones_agregar(resp, st, b) ==
    LET agregar == DeTipo(resp, "AGREGAR_CARRITO")
    IN IF st.error # "" \/ agregar = <<>> THEN st
       ELSE agregar_resuelto(st, agregar[1], resolver_producto(agregar[1], b))

\* lines 943-961: the first [CHECKOUT:codigo] tag; line 960 calls
\* Carrito.to_dict, which Carrito does not define
acciones_checkout(resp, st, codigo1) ==
    LET checkout == DeTipo(resp, "CHECKOUT")
        codigo == IF checkout[1].a = "codigo_random" THEN codigo1 ELSE checkout[1].a
    IN IF st.error # "" \/ checkout = <<>> THEN st
       ELSE IF st.carrito.existe THEN [st EXCEPT !.error = "AttributeError"]
       ELSE [st EXCEPT
                !.texto = Sustituir(@, checkout[1], Tok("link_pago", codigo, "", "", 0)),
                !.acciones = Append(@, [tipo |-> "checkout", codigo |-> codigo,
                                        url |-> checkout_url(codigo),
                                        carrito |-> st.carrito])]

\* lines 963-967: [VER_CARRITO]
acciones_ver_carrito(resp, st) ==
    IF st.error # "" \/ DeTipo(resp, "VER_CARRITO") = <<>> THEN st
    ELSE [st EXCEPT
            !.texto = SustituirTipo(@, "VER_CARRITO", Tok("mensaje_carrito", "", "", "", 0)),
            !.acciones = Append(@, [tipo |-> "ver_carrito"])]

\* lines 969-981: [GENERAR_CHECKOUT], only with a cart that holds items
acciones_generar_checkout(resp, st, codigo2) ==
    IF \/ st.error # ""
       \/ DeTipo(resp, "GENERAR_CHECKOUT") = <<>>
       \/ ~st.carrito.existe
       \/ st.carrito.items = <<>>
    THEN st
    ELSE [st EXCEPT
            !.texto = SustituirTipo(@, "GENERAR_CHECKOUT",
                                    Tok("resumen_pedido", codigo2, "", "", 0)),
            !.acciones = Append(@, [tipo |-> "checkout", codigo |-> codigo2,
                                    url |-> checkout_url(codigo2)])]

\* line 983: the tuple returned, the text stripped; when a step raised
\* there is none
retorno_acciones(fin) ==
    IF fin.error = "" THEN [fin EXCEPT !.texto = strip(@)]
    ELSE [fin EXCEPT !.texto = <<>>, !.productos = <<>>, !.acciones = <<>>]

\* AIBrain._procesar_acciones: the steps in the order of the code; an
\* exception leaves the cart and context as the steps before it left them
procesar_acciones(resp, conv, b, m, codigo1, codigo2) ==
    LET inicio == [error |-> "", texto |-> resp, productos |-> <<>>, acciones |-> <<>>,
                   carrito |-> conv.carrito, contexto |-> conv.contexto]
    IN retorno_acciones(
         acciones_generar_checkout(resp,
           acciones_ver_carrito(resp,
             acciones_checkout(resp,
               acciones_agregar(resp,
                 acciones_buscar(resp,
                   acciones_producto(resp, inicio), m, b), b), codigo1)), codigo2))

ResultadoVacio ==
    [llamado |-> FALSE, error |-> "", texto |-> <<>>, productos |-> <<>>,
     acciones |-> <<>>, antes |-> ConversacionNueva(ContextoVacio)]

-----------------------------------------------------------------------------
(* AIBrain.extraer_preferencias (src/services/ai_brain.py).                 *)

\* the key of the first entry of a keyword dictionary with a keyword inside
\* the text, "" when there is none (for ... if any(...): ...; break)
primera_clave(tabla, texto) ==
    IF \E i \in DOMAIN tabla : ContieneAlguna(texto, tabla[i].keywords)
    THEN tabla[CHOOSE i \in DOMAIN tabla :
                  /\ ContieneAlguna(texto, tabla[i].keywords)
                  /\ \A j \in 1..(i - 1) : ~ContieneAlguna(texto, tabla[j].keywords)].clave
    ELSE ""

\* actualizar_contexto(k, clave) when a key was found
con_preferencia(contexto, k, clave) ==
    IF clave = "" THEN contexto ELSE actualizar_contexto(contexto, k, clave)

\* lines 1314-1320: presupuesto_max from the price patterns
con_presupuesto(contexto, monto) ==
    IF monto = <<>> THEN contexto
    ELSE actualizar_contexto(contexto, "presupuesto_max", monto[1])

\* lines 1323-1326: presupuesto_min and presupuesto_max from a range
con_rango(contexto, rango) ==
    IF rango = <<>> THEN contexto
    ELSE actualizar_contexto(
            actualizar_contexto(contexto, "presupuesto_min", rango[1]),
            "presupuesto_max", rango[2])

\* lines 1387-1394: a special intention
con_intencion(contexto, k, presente) ==
    IF presente THEN actualizar_contexto(contexto, k, TRUE) ELSE contexto

\* AIBrain.extraer_preferencias: the context it leaves
extraer_preferencias(msg, contexto) ==
    con_intencion(con_intencion(con_intencion(
        con_preferencia(con_preferencia(con_preferencia(
            con_rango(con_presupuesto(
                con_preferencia(contexto, "ocasion", primera_clave(ocasiones, msg)),
                precio_match[msg]), rango_match[msg]),
            "color_preferido", primera_clave(colores_preferidos, msg)),
            "flor_preferida", primera_clave(flores_preferidas, msg)),
            "tipo_producto", primera_clave(tipos_producto, msg)),
        "busca_economico",
        ContieneAlguna(msg, {"barato", "economico", "poco presupuesto", "ajustado"})),
        "busca_descuento",
        ContieneAlguna(msg, {"oferta", "descuento", "promocion", "rebaja"})),
        "busca_premium",
        ContieneAlguna(msg, {"premium", "lujoso", "elegante", "especial", "grande"}))

-----------------------------------------------------------------------------
(* AIBrain._detectar_upselling_response.  A MensajeChat is [role, content]; *)
(* content is a text of tokens.                                             *)

MensajeChat(role, content) == [role |-> role, content |-> content]

\* line 429
afirmaciones ==
    {"si", "ok", "dale", "claro", "por supuesto", "me interesa", "perfecto",
     "bueno", "va", "muestrame", "mostrame"}

\* line 432: startswith(afirm) or == afirm
es_afirmativo(msg) == Prefijos[msg] \cap afirmaciones # {}

\* line 444: an earlier offer of a complement
es_oferta(msg) ==
    /\ msg.role = "assistant"
    /\ texto_contiene(msg.content, "?")
    /\ \E kw \in {"globo", "chocolate", "peluche", "complementar", "agregar"} :
          texto_contiene(msg.content, kw)

\* s[-n:]
Ultimos(s, n) == SubSeq(s, IF Len(s) > n THEN Len(s) - n + 1 ELSE 1, Len(s))

\* the latest offer among the last ten messages of the assistant
oferta_encontrada_del_asistente(mensajes) ==
    LET recientes == Ultimos(SelectSeq(mensajes, LAMBDA m : m.role = "assistant"), 10)
        ofertas == {i \in DOMAIN recientes : es_oferta(recientes[i])}
    IN IF ofertas = {} THEN <<>>
       ELSE recientes[CHOOSE i \in ofertas : \A j \in ofertas : j <= i].content

\* lines 438-446: the latest offer among the last ten messages, <<>> if none
oferta_encontrada(mensajes) ==
    LET recientes == Ultimos(mensajes, 10)
        ofertas == {i \in DOMAIN recientes : es_oferta(recientes[i])}
    IN IF ofertas = {} THEN <<>>
       ELSE recientes[CHOOSE i \in ofertas : \A j \in ofertas : j <= i].content

\* the card of a catalog row (lines 472-480, 236-244)
tarjeta(p) ==
    [id |-> p.ID, nombre |-> p.Producto, precio_num |-> p.Precio_final,
     categoria |-> p.Categoria, tipo |-> p.Tipo]

Tarjetas(filas) == [i \in DOMAIN filas |-> tarjeta(filas[i])]

\* lines 449-454
carrito_ids(carro) == {carro.items[i].producto_id : i \in DOMAIN carro.items}
carrito_nombres(carro) ==
    {Minusculas[carro.items[i].producto_nombre] : i \in DOMAIN carro.items}

\* lines 464-533: what was offered, searched again; globos first
productos_oferta(oferta, carro, m) ==
    LET fuera(g) == g.ID \notin carrito_ids(carro)
        libre(c) == /\ c.ID \notin carrito_ids(carro)
                    /\ ~\E n \in carrito_nombres(carro) : n # "" /\ Contiene(c.Producto, n)
    IN IF texto_contiene(oferta, "globo")
       THEN Tarjetas(SelectSeq(Primeros(buscar_productos(m, <<"globos">>), 3), fuera))
       ELSE IF texto_contiene(oferta, "chocolate")
       THEN Tarjetas(Primeros(SelectSeq(buscar_productos(m, <<"chocolates">>), libre), 3))
       ELSE IF texto_contiene(oferta, "peluche")
       THEN Tarjetas(Primeros(buscar_productos(m, <<"peluche">>), 3))
       ELSE <<>>

\* the sentence that goes with the cards
texto_oferta(oferta) ==
    IF texto_contiene(oferta, "globo") THEN "Aqui tienes los globos disponibles:"
    ELSE IF texto_contiene(oferta, "chocolate")
    THEN "Excelente eleccion! Te muestro los chocolates:"
    ELSE "Aqui tienes los peluches disponibles:"

SinRespuestaUpsell == [hay |-> FALSE, texto |-> <<>>, productos |-> <<>>]

\* lines 422-435: the message passes the two tests made before the history
\* is read
pasa_filtros(msg) ==
    ~Contiene(msg, "carrito") /\ ~Contiene(msg, "agregar") /\ es_afirmativo(msg)

DeteccionVacia ==
    [hecho |-> FALSE, hay |-> FALSE, texto |-> <<>>, productos |-> <<>>,
     buscada |-> FALSE, oferta |-> <<>>]

\* lines 535-546: a reply only when there are cards
respuesta_a_oferta(oferta, productos) ==
    IF oferta = <<>> \/ productos = <<>> THEN SinRespuestaUpsell
    ELSE [hay |-> TRUE, texto |-> <<Texto(texto_oferta(oferta))>>,
          productos |-> productos]

\* the detector without the tests on the message of lines 425 and 434
detectar_upselling_response_sin_filtros(msg, mensajes, carro, m) ==
    respuesta_a_oferta(oferta_encontrada(mensajes),
        IF oferta_encontrada(mensajes) = <<>> THEN <<>>
        ELSE productos_oferta(oferta_encontrada(mensajes), carro, m))

\* AIBrain._detectar_upselling_response
detectar_upselling_response(msg, mensajes, carro, m) ==
    IF Contiene(msg, "carrito") \/ Contiene(msg, "agregar") \/ ~es_afirmativo(msg)
    THEN SinRespuestaUpsell
    ELSE respuesta_a_oferta(oferta_encontrada(mensajes),
            IF oferta_encontrada(mensajes) = <<>> THEN <<>>
            ELSE productos_oferta(oferta_encontrada(mensajes), carro, m))

-----------------------------------------------------------------------------
(* AIBrain._respuesta_demo: the reply written without the language model.   *)

\* hours of the day: every shop closed, two of them open, all open
Horas == {7, 9, 12}

\* config.TIENDAS_ROSATEL: hora_apertura, hora_cierre
TIENDAS_ROSATEL ==
    <<[hora_apertura |-> 10, hora_cierre |-> 22],
      [hora_apertura |-> 8, hora_cierre |-> 22],
      [hora_apertura |-> 8, hora_cierre |-> 22]>>

\* AIBrain._verificar_tienda_abierta, as the word of line 1056
estado_tienda(tienda, hora) ==
    IF tienda.hora_apertura <= hora /\ hora < tienda.hora_cierre
    THEN "abierta" ELSE "cerrada"

\* lines 1052-1058: three bubbles, the last one the list of the shops
respuesta_horarios(hora) ==
    <<Texto("Online 24/7 con envio a todo Lima."), NuevaBurbuja,
      Texto("Tiendas:"), NuevaBurbuja,
      Tok("tiendas", estado_tienda(TIENDAS_ROSATEL[1], hora),
          estado_tienda(TIENDAS_ROSATEL[2], hora),
          estado_tienda(TIENDAS_ROSATEL[3], hora), 0)>>

\* lines 1063-1067: what the assistant said last, <<>> if nothing
ultimo_bot(mensajes) ==
    LET suyos == {i \in DOMAIN mensajes : mensajes[i].role = "assistant"}
    IN IF suyos = {} THEN <<>>
       ELSE mensajes[CHOOSE i \in suyos : \A j \in suyos : j <= i].content

\* re.search(r's/(\d+)', ultimo_bot): the first amount of the text
primer_sugerido(texto) ==
    LET con == {i \in DOMAIN texto :
                   texto[i].k = "texto" /\ sugerido_match[texto[i].a] # <<>>}
    IN IF con = {} THEN <<>>
       ELSE sugerido_match[texto[CHOOSE i \in con : \A j \in con : i <= j].a]

\* lines 1061-1074: "ok" after an offer to raise the budget
con_sugerido(contexto, msg, ultimo) ==
    IF /\ Minusculas[msg] \in {"ok", "si", "dale", "va", "bueno", "esta bien",
                               "de acuerdo", "perfecto"}
       /\ texto_contiene(ultimo, "s/")
       /\ texto_contiene(ultimo, "te puedo mostrar")
    THEN con_presupuesto(contexto, primer_sugerido(ultimo))
    ELSE contexto

\* lines 1080-1084: the first number of the message, when >= 30
con_monto(contexto, monto) ==
    IF monto # <<>> /\ monto[1] >= 30
    THEN actualizar_contexto(contexto, "presupuesto_max", monto[1]) ELSE contexto

\* line 1087
colores_demo == <<"rojo", "rosa", "blanco", "amarillo", "variado", "pasteles">>

\* lines 1087-1090: the first color of the list inside the message
primer_color(msg) ==
    LET con == {i \in DOMAIN colores_demo : Contiene(msg, colores_demo[i])}
    IN IF con = {} THEN ""
       ELSE colores_demo[CHOOSE i \in con : \A j \in con : i <= j]

\* lines 1043-1109: the context after the message has been read
contexto_demo(msg, contexto, mensajes) ==
    con_preferencia(
        con_preferencia(
            con_monto(
                con_sugerido(extraer_preferencias(msg, contexto), msg,
                             ultimo_bot(mensajes)),
                pres_match[msg]),
            "color_preferido", primer_color(msg)),
        "ocasion", primera_clave(ocasion_map, msg))

\* f"{precio:.0f}" for the prices of the catalog
Formato0f ==
    15 :> "15" @@ 35 :> "35" @@ 50 :> "50" @@ 60 :> "60" @@ 70 :> "70" @@
    79 :> "79" @@ 90 :> "90" @@ 120 :> "120" @@ 130 :> "130" @@ 200 :> "200"

\* lines 1120-1132: the search, and the search for "flores" when it is empty
productos_demo(contexto, m) ==
    LET ocasion == Get(contexto, "ocasion", "")
        color == Get(contexto, "color_preferido", "")
        query == <<IF ocasion # "" THEN ocasion ELSE "flores">>
                 \o (IF color # "" THEN <<color>> ELSE <<>>)
    IN IF buscar_productos(m, query) # <<>> THEN buscar_productos(m, query)
       ELSE buscar_productos(m, <<"flores">>)

\* lines 1159-1163: the bubble that goes after the products
burbuja_upselling(tipo) ==
    IF ContieneAlguna(tipo, {"flor", "ramo", "arreglo"})
    THEN <<NuevaBurbuja,
           Texto("Si quieres, puedo agregarte chocolates Ferrero (S/35) o un peluche (desde S/79).")>>
    ELSE IF Contiene(tipo, "peluche")
    THEN <<NuevaBurbuja,
           Texto("Tambien tenemos packs con flores y chocolates. Te muestro?")>>
    ELSE <<>>

\* lines 1146-1165: up to three products as [PRODUCTO:...] directives
opciones_demo(mostrar) ==
    <<Texto("Mira estas opciones:")>>
    \o [i \in DOMAIN mostrar |->
           TagProducto(mostrar[i].ID, mostrar[i].Producto,
                       Formato0f[mostrar[i].Precio_final], 4)]
    \o burbuja_upselling(mostrar[Len(mostrar)].Tipo)

\* lines 1134-1170: the reply when occasion and budget are known
busqueda_demo(contexto, productos_raw) ==
    LET barato(p) == p.Precio_final <= Get(contexto, "presupuesto_max", 150)
    IN IF SelectSeq(productos_raw, barato) # <<>>
       THEN [texto |-> opciones_demo(Primeros(SelectSeq(productos_raw, barato), 3)),
             contexto |-> contexto]
       ELSE [texto |-> <<Tok("sin_opciones", "", "", "",
                             Get(contexto, "presupuesto_max", 150))>>,
             contexto |-> actualizar_contexto(contexto, "presupuesto_sugerido",
                              Get(contexto, "presupuesto_max", 150) + 50)]

\* lines 1180-1189: the question for what is still missing
pregunta_demo(msg, contexto) ==
    IF "ocasion" \notin DOMAIN contexto
    THEN IF ContieneAlguna(msg, {"rosa", "rosas", "flores", "regalo", "quiero",
                                 "busco", "tienen"})
         THEN "Para que ocasion seria?"
         ELSE IF ContieneAlguna(msg, {"peluche", "oso", "hugo"})
         THEN "Que lindo! Es para cumpleanos, para ninos, o regalo romantico?"
         ELSE "Que andas buscando?"
    ELSE "Y mas o menos cuanto pensabas gastar?"

\* lines 1110-1198 on the context read from the message
respuesta_con_contexto(msg, contexto, m) ==
    IF "ocasion" \in DOMAIN contexto /\ "presupuesto_max" \in DOMAIN contexto
    THEN busqueda_demo(contexto, productos_demo(contexto, m))
    ELSE [texto |-> <<Texto(pregunta_demo(msg, contexto))>>, contexto |-> contexto]

\* AIBrain._respuesta_demo: the text it returns and the context it leaves
respuesta_demo(msg, contexto, mensajes, m, hora) ==
    IF Minusculas[msg] \in {"hola", "hi", "buenos dias", "buenas tardes",
                            "buenas noches", "buenas"}
    THEN [texto |-> <<Texto("Hola! Que andas buscando?")>>,
          contexto |-> extraer_preferencias(msg, contexto)]
    ELSE IF ContieneAlguna(msg, {"abierto", "abren", "horario", "tienda"})
    THEN [texto |-> respuesta_horarios(hora),
          contexto |-> extraer_preferencias(msg, contexto)]
    ELSE respuesta_con_contexto(msg, contexto_demo(msg, contexto, mensajes), m)

-----------------------------------------------------------------------------
(* AIBrain._generar_respuesta.  modelo is the client of the language        *)
(* model: configurado (self.model is not None), falla (generate_content or  *)
(* response.text raises), texto (response.text).                            *)

\* a reply that keeps the empty text of the model
texto_del_modelo_sin_sustituir(texto) == strip(texto)

\* lines 405-408: response.text.strip(), or the request to repeat
texto_del_modelo(texto) ==
    IF texto # <<>> THEN strip(texto)
    ELSE <<Texto("Lo siento, no pude procesar tu mensaje. Podrias repetirlo?")>>

\* lines 360-414, with the context the proactive search left
respuesta_con_modelo(msg, contexto, mensajes, modelo_, m, hora) ==
    IF modelo_.falla THEN respuesta_demo(msg, contexto, mensajes, m, hora)
    ELSE [texto |-> texto_del_modelo(modelo_.texto), contexto |-> contexto]

\* AIBrain._generar_respuesta: the text and the context it leaves
generar_respuesta(msg, contexto, mensajes, modelo_, m, hora) ==
    IF ~modelo_.configurado THEN respuesta_demo(msg, contexto, mensajes, m, hora)
    ELSE respuesta_con_modelo(msg, buscar_productos_proactivo(msg, contexto, m).contexto,
                              mensajes, modelo_, m, hora)

-----------------------------------------------------------------------------
(* AIBrain._detectar_nueva_solicitud and AIBrain._buscar_por_solicitud.     *)

\* line 211
PalabrasSolicitud ==
    {"tienes", "tienen", "hay", "busco", "necesito", "muestrame", "ver ", "dame"}

\* AIBrain._detectar_nueva_solicitud: the category asked for, "" for None
detectar_nueva_solicitud(msg) ==
    IF Contiene(msg, "carrito") \/ Contiene(msg, "agregar") THEN ""
    ELSE IF ContieneAlguna(msg, PalabrasSolicitud)
    THEN primera_clave(solicitudes, msg) ELSE ""

\* AIBrain._buscar_por_solicitud
buscar_por_solicitud(tipo, contexto, m) ==
    LET otro(p) == p.ID # Get(contexto, "ultimo_upsell_id", "")
    IN Tarjetas(SelectSeq(Primeros(buscar_productos(m, <<tipo>>), 5), otro))

-----------------------------------------------------------------------------
(* AIBrain.procesar_mensaje.  The turn is a record carried through the      *)
(* steps of the function: the conversation's fields as they stand, what     *)
(* will be returned, the error raised (error # ""), and via, "upsell" when  *)
(* line 119 returned.                                                       *)

\* str.split("|NUEVA_BURBUJA|")
split(texto) ==
    LET cortes == {0, Len(texto) + 1}
                  \cup {i \in DOMAIN texto : texto[i] = NuevaBurbuja}
        corte(k) == CHOOSE c \in cortes : Cardinality({d \in cortes : d < c}) = k
    IN [k \in 1..(Cardinality(cortes) - 1) |->
           SubSeq(texto, corte(k - 1) + 1, corte(k) - 1)]

\* the segments of the reply as they are, the empty ones too
burbujas_de_sin_filtrar(texto) == split(texto)

\* line 174: [b.strip() for b in ... if b.strip()]
burbujas_de(texto) ==
    LET partes == split(texto)
        llena(b) == b # <<>>
    IN SelectSeq([k \in DOMAIN partes |-> strip(partes[k])], llena)

RECURSIVE unir(_)
\* " ".join(burbujas)
unir(burbujas) ==
    IF burbujas = <<>> THEN <<>>
    ELSE IF Len(burbujas) = 1 THEN burbujas[1]
    ELSE burbujas[1] \o <<Espacio>> \o unir(Tail(burbujas))

\* a turn that starts on the context as it was loaded
turno_inicial_sin_extraer(conv, msg) ==
    [error |-> "", via |-> "",
     contexto |-> conv.contexto,
     carrito |-> conv.carrito, mensajes |-> conv.mensajes,
     texto |-> <<>>, burbujas |-> <<>>, productos |-> <<>>, acciones |-> <<>>,
     upsell_prod |-> <<>>, productos_parser |-> <<>>, proactiva |-> "",
     leido_detector |-> <<>>, leido_generar |-> <<>>]

\* lines 109-110: the turn when the function is entered.  leido_detector
\* and leido_generar record the context the conversation holds when the
\* detector (line 115) and _generar_respuesta (line 125) are called
turno_inicial(conv, msg) ==
    [error |-> "", via |-> "",
     contexto |-> extraer_preferencias(msg, conv.contexto),
     carrito |-> conv.carrito, mensajes |-> conv.mensajes,
     texto |-> <<>>, burbujas |-> <<>>, productos |-> <<>>, acciones |-> <<>>,
     upsell_prod |-> <<>>, productos_parser |-> <<>>, proactiva |-> "",
     leido_detector |-> <<>>, leido_generar |-> <<>>]

\* an early return that leaves the history as it was
con_respuesta_upsell_sin_historial(t, msg, r) ==
    IF ~r.hay THEN t
    ELSE [t EXCEPT !.via = "upsell",
                   !.texto = r.texto, !.burbujas = <<r.texto>>,
                   !.productos = r.productos]

\* lines 116-119: the early return on a reply to an offer
con_respuesta_upsell(t, msg, r) ==
    IF ~r.hay THEN t
    ELSE [t EXCEPT !.via = "upsell",
                   !.mensajes = @ \o <<MensajeChat("user", <<Texto(msg)>>),
                                       MensajeChat("assistant", r.texto)>>,
                   !.texto = r.texto, !.burbujas = <<r.texto>>,
                   !.productos = r.productos]

\* lines 115-119
paso_upsell(t, msg, m) ==
    con_respuesta_upsell([t EXCEPT !.leido_detector = <<t.contexto>>], msg,
        detectar_upselling_response(msg, t.mensajes, t.carrito, m))

\* lines 357-365 and 580-581: what became of the proactive search of the turn:
\* not called without a model client, left at once when the context is not
\* sufficient, or gone on to query the catalog ("disparada")
proactiva_de(msg, contexto, modelo_) ==
    IF ~modelo_.configurado THEN "no_llamada"
    ELSE IF contexto_suficiente(msg, contexto) THEN "disparada"
    ELSE "sin_contexto"

\* lines 122-125: the text of the reply and the context it leaves
con_respuesta(t, msg, g) ==
    [t EXCEPT !.mensajes = Append(@, MensajeChat("user", <<Texto(msg)>>)),
              !.texto = g.texto, !.contexto = g.contexto]

\* a reply written by the model even when line 119 has returned
paso_generar_sin_retorno(t, msg, modelo_, m, hora) ==
    con_respuesta(t, msg,
        generar_respuesta(msg, t.contexto,
            Append(t.mensajes, MensajeChat("user", <<Texto(msg)>>)),
            modelo_, m, hora))

paso_generar(t, msg, modelo_, m, hora) ==
    IF t.via # "" THEN t
    ELSE [con_respuesta(t, msg,
            generar_respuesta(msg, t.contexto,
                Append(t.mensajes, MensajeChat("user", <<Texto(msg)>>)),
                modelo_, m, hora))
          EXCEPT !.proactiva = proactiva_de(msg, t.contexto, modelo_),
                 !.leido_generar = <<t.contexto>>]

\* lines 128-131: what the directives did, or the error they raised
con_acciones(t, fin) ==
    IF fin.error # ""
    THEN [t EXCEPT !.error = fin.error, !.carrito = fin.carrito,
                   !.contexto = fin.contexto]
    ELSE [t EXCEPT !.texto = fin.texto, !.productos = fin.productos,
                   !.acciones = fin.acciones, !.carrito = fin.carrito,
                   !.contexto = fin.contexto,
                   !.productos_parser = fin.productos]

paso_acciones(t, b, m, codigo1, codigo2) ==
    IF t.via # "" THEN t
    ELSE con_acciones(t, procesar_acciones(t.texto, t, b, m, codigo1, codigo2))

\* the pending candidate is appended and nothing is removed
reconciliar_upsell_sin_filtrar(productos, upsell) ==
    Append(productos, [upsell EXCEPT !.es_upsell = TRUE])

\* lines 139-145: the candidate goes last, once
reconciliar_upsell(productos, upsell) ==
    LET otro(p) == p.id # upsell.id
    IN Append(SelectSeq(productos, otro), [upsell EXCEPT !.es_upsell = TRUE])

\* lines 136-145
paso_reconciliar(t) ==
    IF t.via # "" \/ t.error # "" THEN t
    ELSE IF "upsell_producto" \notin DOMAIN t.contexto THEN t
    ELSE IF t.productos = <<>>
    THEN [t EXCEPT !.upsell_prod = <<t.contexto["upsell_producto"]>>]
    ELSE [t EXCEPT !.upsell_prod = <<t.contexto["upsell_producto"]>>,
                   !.contexto = Pop(@, "upsell_producto"),
                   !.productos = reconciliar_upsell(@, t.contexto["upsell_producto"])]

\* lines 163-168
skip_fallback(texto, msg) ==
    \/ texto_contiene(texto, "agregado")
    \/ texto_contiene(texto, "finaliza")
    \/ Contiene(msg, "carrito")
    \/ Contiene(msg, "lo quiero")

\* lines 151-171: products for a turn that displayed none
paso_fallback(t, msg, m) ==
    IF t.via # "" \/ t.error # "" \/ t.productos # <<>> THEN t
    ELSE IF detectar_nueva_solicitud(msg) # ""
    THEN [t EXCEPT !.productos =
                buscar_por_solicitud(detectar_nueva_solicitud(msg), t.contexto, m)]
    ELSE IF skip_fallback(t.texto, msg) THEN t
    ELSE [t EXCEPT !.productos = buscar_productos_fallback(t.contexto, m)]

\* lines 174-178: the bubbles, and the reply kept in the history
con_burbujas(t, burbujas) ==
    [t EXCEPT !.burbujas = burbujas,
              !.mensajes = Append(@, MensajeChat("assistant", unir(burbujas)))]

paso_burbujas(t) ==
    IF t.via # "" \/ t.error # "" THEN t ELSE con_burbujas(t, burbujas_de(t.texto))

\* a turn that runs the fallback searches before it reconciles the candidate
procesar_mensaje_fallback_primero(conv, msg, modelo_, m, b, codigo1, codigo2, hora) ==
    paso_burbujas(
      paso_reconciliar(
        paso_fallback(
          paso_acciones(
            paso_generar(
              paso_upsell(turno_inicial(conv, msg), msg, m),
              msg, modelo_, m, hora),
            b, m, codigo1, codigo2),
          msg, m)))

\* AIBrain.procesar_mensaje
procesar_mensaje(conv, msg, modelo_, m, b, codigo1, codigo2, hora) ==
    paso_burbujas(
      paso_fallback(
        paso_reconciliar(
          paso_acciones(
            paso_generar(
              paso_upsell(turno_inicial(conv, msg), msg, m),
              msg, modelo_, m, hora),
            b, m, codigo1, codigo2)),
        msg, m))

TurnoVacio ==
    [hecho |-> FALSE, error |-> "", via |-> "", burbujas |-> <<>>,
     productos |-> <<>>, acciones |-> <<>>, upsell_prod |-> <<>>,
     productos_parser |-> <<>>, proactiva |-> "",
     leido_detector |-> <<>>, leido_generar |-> <<>>, texto |-> <<>>,
     antes |-> ConversacionNueva(ContextoVacio)]

ModeloSinConfigurar == [configurado |-> FALSE, falla |-> FALSE, texto |-> <<>>]

-----------------------------------------------------------------------------
(* SessionManager (src/services/session_manager.py).  almacen holds the    *)
(* manager and the store behind it: cliente (self._redis is not None),      *)
(* servidor (the Redis server answers), redis (the keys of the server, each *)
(* with its data and the time it expires), local (self._local_sessions),    *)
(* reloj (the time, in seconds).  A conversation in memory is               *)
(* [session_id, canal, mensajes, carrito, contexto]; the stored form is the *)
(* dict of _serializar_conversacion, <<>> standing for None.  escrito (the  *)
(* time of the write) is kept with a local entry for the record only: the   *)
(* code stores no time with it.  ref names the request that still holds the *)
(* contexto dict of a local entry (0 for none): line 145 stores the dict of *)
(* the conversation itself, a load copies it.                               *)

\* line 18: 24 hours, in seconds
SESSION_TTL == 86400

Conversacion(session_id, canal, user_id, mensajes, carro, contexto) ==
    [session_id |-> session_id, canal |-> canal, user_id |-> user_id,
     mensajes |-> mensajes, carrito |-> carro, contexto |-> contexto]

\* SessionManager.__init__ and _connect: the client is kept only when the
\* ping at construction succeeds
AlmacenInicial(servidor) ==
    [cliente |-> servidor, servidor |-> servidor, redis |-> <<>>, local |-> <<>>,
     reloj |-> 0]

\* a key that leaves the session id out
get_session_key_sin_id(session_id) == <<"rosatel:session:", "">>

\* SessionManager._get_session_key: f"rosatel:session:{session_id}"
get_session_key(session_id) == <<"rosatel:session:", session_id>>

\* SessionManager._serializar_conversacion
serializar_conversacion(conv) ==
    [session_id |-> conv.session_id,
     canal |-> conv.canal,
     user_id |-> conv.user_id,
     mensajes |-> [i \in DOMAIN conv.mensajes |->
                      [role |-> conv.mensajes[i].role,
                       content |-> conv.mensajes[i].content]],
     carrito |-> IF conv.carrito.existe
                 THEN <<[session_id |-> conv.session_id,
                         items |-> conv.carrito.items]>>
                 ELSE <<>>,
     contexto |-> conv.contexto]

\* CarritoItem(**item_data) for every stored item
items_de(items) ==
    [i \in DOMAIN items |->
        CarritoItem(items[i].producto_id, items[i].producto_nombre,
                    items[i].cantidad, items[i].precio_unitario)]

\* a reading of the stored data that leaves the items of the cart behind
deserializar_conversacion_sin_items(data) ==
    Conversacion(data.session_id, data.canal, data.user_id,
        [i \in DOMAIN data.mensajes |->
            MensajeChat(data.mensajes[i].role, data.mensajes[i].content)],
        [existe |-> data.carrito # <<>>, items |-> <<>>],
        data.contexto)

\* SessionManager._deserializar_conversacion
deserializar_conversacion(data) ==
    Conversacion(data.session_id, data.canal, data.user_id,
        [i \in DOMAIN data.mensajes |->
            MensajeChat(data.mensajes[i].role, data.mensajes[i].content)],
        IF data.carrito # <<>>
        THEN [existe |-> TRUE, items |-> items_de(data.carrito[1].items)]
        ELSE [existe |-> FALSE, items |-> <<>>],
        data.contexto)

\* a command sent to a Redis server that does not answer raises
\* redis.ConnectionError; nothing in the manager catches it
SinConexion(a) == a.cliente /\ ~a.servidor

\* redis GET: the data of a key that has not expired, <<>> for None
redis_get(a, key) ==
    IF key \in DOMAIN a.redis /\ a.reloj < a.redis[key].expira
    THEN <<a.redis[key].data>> ELSE <<>>

\* redis SETEX key ttl data
redis_setex(a, key, ttl, data) ==
    [a EXCEPT !.redis = (key :> [data |-> data, expira |-> a.reloj + ttl]) @@ @]

\* lines 68-74: the stored data of a session, <<>> when there is none
datos_de(a, session_id) ==
    IF a.cliente THEN redis_get(a, get_session_key(session_id))
    ELSE IF session_id \in DOMAIN a.local THEN <<a.local[session_id].data>>
    ELSE <<>>

\* lines 97-104: the store after the write
con_datos(a, session_id, data) ==
    IF a.cliente
    THEN redis_setex(a, get_session_key(session_id), SESSION_TTL, data)
    ELSE [a EXCEPT !.local =
            (session_id :> [data |-> data, escrito |-> a.reloj, ref |-> 0]) @@ @]

\* a save that leaves alone a stored history it would shorten or fork
guardar_conversacion_sin_pisar(a, conv) ==
    IF SinConexion(a) THEN [error |-> "ConnectionError", almacen |-> a]
    ELSE IF /\ datos_de(a, conv.session_id) # <<>>
            /\ LET previos == datos_de(a, conv.session_id)[1].mensajes
                   nuevos == serializar_conversacion(conv).mensajes
               IN \/ Len(previos) > Len(nuevos)
                  \/ SubSeq(nuevos, 1, Len(previos)) # previos
    THEN [error |-> "", almacen |-> a]
    ELSE [error |-> "",
          almacen |-> con_datos(a, conv.session_id, serializar_conversacion(conv))]

\* SessionManager.guardar_conversacion: the error raised ("" for none) and
\* the store it leaves
guardar_conversacion(a, conv) ==
    IF SinConexion(a) THEN [error |-> "ConnectionError", almacen |-> a]
    ELSE [error |-> "",
          almacen |-> con_datos(a, conv.session_id, serializar_conversacion(conv))]

\* lines 77-85: a new conversation, saved at once
conversacion_creada(a, session_id, canal, user_id) ==
    [error |-> "", nueva |-> TRUE,
     conv |-> <<Conversacion(session_id, canal, user_id, <<>>,
                             [existe |-> TRUE, items |-> <<>>], ContextoVacio)>>,
     almacen |-> guardar_conversacion(a,
                    Conversacion(session_id, canal, user_id, <<>>,
                                 [existe |-> TRUE, items |-> <<>>],
                                 ContextoVacio)).almacen]

\* a load that creates and stores a new conversation whatever is stored
obtener_conversacion_siempre_nueva(a, session_id, canal, user_id) ==
    IF SinConexion(a)
    THEN [error |-> "ConnectionError", nueva |-> FALSE, conv |-> <<>>, almacen |-> a]
    ELSE conversacion_creada(a, session_id, canal, user_id)

\* SessionManager.obtener_conversacion: the error raised, the conversation
\* returned, whether it was created, and the store the call leaves
obtener_conversacion(a, session_id, canal, user_id) ==
    IF SinConexion(a)
    THEN [error |-> "ConnectionError", nueva |-> FALSE, conv |-> <<>>, almacen |-> a]
    ELSE IF datos_de(a, session_id) # <<>>
    THEN [error |-> "", nueva |-> FALSE,
          conv |-> <<deserializar_conversacion(datos_de(a, session_id)[1])>>,
          almacen |-> a]
    ELSE conversacion_creada(a, session_id, canal, user_id)

\* the time since the data of a session was written, -1 when there is none
\* (for a key of the server, whether it has expired or not)
edad_de(a, session_id) ==
    IF a.cliente
    THEN IF get_session_key(session_id) \in DOMAIN a.redis
         THEN a.reloj - (a.redis[get_session_key(session_id)].expira - SESSION_TTL)
         ELSE 0 - 1
    ELSE IF session_id \in DOMAIN a.local
         THEN a.reloj - a.local[session_id].escrito
         ELSE 0 - 1

RetornoVacio ==
    [op |-> "", session_id |-> "", canal |-> "", user_id |-> <<>>,
     error |-> "", nueva |-> FALSE, edad |-> 0 - 1, conv |-> <<>>]

-----------------------------------------------------------------------------
(* The routers (src/routers/widget.py, webhook_whatsapp.py and              *)
(* webhook_instagram.py).  A request is its input (entrada), how far the    *)
(* handler has got (pc) and the conversation object it holds.  A handler    *)
(* gives way to other requests only while it awaits: the chat handlers      *)
(* inside procesar_mensaje, after they loaded the conversation and before   *)
(* they save it; agregar_al_carrito awaits nothing.  pc is "nuevo",         *)
(* "cargado" (loaded, reply pending), "hecho" (saved and answered),         *)
(* "rechazado" (answered without a turn) or "error" (an exception ended     *)
(* the handler).  visto, escrito and solapa record what the handler loaded, *)
(* what it saved, and which requests of its session were between their load *)
(* and their save when it saved.                                            *)

Entrada(canal, tipo, texto, producto_id, cantidad) ==
    [canal |-> canal, tipo |-> tipo, texto |-> texto,
     producto_id |-> producto_id, cantidad |-> cantidad]

\* widget.py 142, webhook_whatsapp.py 73, webhook_instagram.py 84: the
\* session of a request (one user per channel)
session_de(e) ==
    CASE e.canal = "whatsapp" -> "wa_51999"
      [] e.canal = "instagram" -> "ig_777"
      [] OTHER -> "widget_1"

\* widget.py 141-144, webhook_whatsapp.py 77, webhook_instagram.py 88: the
\* user id of a request, <<>> for None (the widget passes none)
user_de(e) ==
    CASE e.canal = "whatsapp" -> <<"51999">>
      [] e.canal = "instagram" -> <<"777">>
      [] OTHER -> <<>>

\* widget.py 133, webhook_whatsapp.py 58, webhook_instagram.py 74: is the
\* message let through to the turn ("" also stands for no text at all)
mensaje_aceptado(e) ==
    IF e.canal = "widget"
    THEN e.texto # "" /\ Recortados[e.texto] # ""
    ELSE e.texto # ""

\* widget.py 147, webhook_whatsapp.py 81, webhook_instagram.py 104: the
\* text handed to procesar_mensaje
texto_del_turno(e) ==
    IF e.canal = "widget" THEN Recortados[e.texto] ELSE e.texto

PeticionNueva(e) ==
    [entrada |-> e, pc |-> "nuevo", conv |-> <<>>, visto |-> <<>>,
     escrito |-> <<>>, solapa |-> {}, orden |-> 0]

\* session_manager.py 145 with ai_brain.py 110: the conversation a load has
\* just created shares its contexto with the entry of the in-memory map, so
\* what request p writes into the one shows in the other
con_contexto_compartido(a, session_id, p, contexto) ==
    IF ~a.cliente /\ session_id \in DOMAIN a.local /\ a.local[session_id].ref \in {0, p}
    THEN [a EXCEPT !.local[session_id].ref = p,
                   !.local[session_id].data.contexto = contexto]
    ELSE a

\* the store after request p loaded its conversation and ran line 110 of
\* procesar_mensaje
almacen_cargado(r, e, p) ==
    IF r.error = "" /\ r.nueva
    THEN con_contexto_compartido(r.almacen, session_de(e), p,
            extraer_preferencias(texto_del_turno(e), ContextoVacio))
    ELSE r.almacen

\* the store after the turn of request p raised
almacen_tras_error(a, e, p, contexto) ==
    IF session_de(e) \in DOMAIN a.local /\ a.local[session_de(e)].ref = p
    THEN con_contexto_compartido(a, session_de(e), p, contexto)
    ELSE a

\* the handler up to its first await: the check of the message and the load
recibido(p, r) ==
    IF r.error # "" THEN [p EXCEPT !.pc = "error"]
    ELSE [p EXCEPT !.pc = "cargado", !.conv = r.conv,
                   !.visto = <<serializar_conversacion(r.conv[1])>>]

\* widget.py 147-150, webhook_whatsapp.py 81-84, webhook_instagram.py
\* 104-107: the conversation after the turn and the second
\* extraer_preferencias, on the text as it was received
conversacion_del_turno(conv, e, t) ==
    [conv EXCEPT !.mensajes = t.mensajes, !.carrito = t.carrito,
                 !.contexto = extraer_preferencias(e.texto, t.contexto)]

\* the request after the save
guardado(p, conv, g, solapa, orden) ==
    IF g.error # "" THEN [p EXCEPT !.pc = "error"]
    ELSE [p EXCEPT !.pc = "hecho", !.conv = <<conv>>,
                   !.escrito = <<serializar_conversacion(conv)>>,
                   !.solapa = solapa, !.orden = orden]

\* widget.py 284-289: the product asked for is missing (404) or short of
\* stock (400)
carrito_rechazado(e, b, stock) ==
    \/ obtener_producto(b, e.producto_id) = <<>>
    \/ stock < e.cantidad

\* widget.py 298: conversacion.carrito.agregar_item(producto, cantidad)
conversacion_con_item(conv, e, b) ==
    [conv EXCEPT !.carrito.items =
        agregar_item(@, obtener_producto(b, e.producto_id)[1], e.cantidad)]

\* widget.py 291-299: load, add, save; the error raised and the store left
carrito_agregado(a, e, b) ==
    LET r == obtener_conversacion(a, session_de(e), e.canal, user_de(e)) IN
    IF r.error # "" THEN [error |-> r.error, almacen |-> a, conv |-> <<>>]
    ELSE IF ~r.conv[1].carrito.existe
    THEN [error |-> "AttributeError", almacen |-> r.almacen, conv |-> r.conv]
    ELSE [error |-> guardar_conversacion(r.almacen,
                        conversacion_con_item(r.conv[1], e, b)).error,
          almacen |-> guardar_conversacion(r.almacen,
                        conversacion_con_item(r.conv[1], e, b)).almacen,
          conv |-> <<conversacion_con_item(r.conv[1], e, b)>>]

-----------------------------------------------------------------------------
(* Idle values: what a specification keeps for the variables it leaves     *)
(* alone.                                                                  *)

CarritoIdle == carrito = <<>> /\ llamadas = <<>>

ConvIdle ==
    /\ conversacion = ConversacionNueva(ContextoVacio)
    /\ mensaje = ""
    /\ mcp = McpCaido

BusquedaVacia ==
    [n |-> 0, extracto |-> ExtractoVacio, extracto_previo |-> ExtractoVacio,
     contexto_previo |-> ContextoVacio, candidatos |-> <<>>, servicio |-> <<>>,
     fallback |-> [llamado |-> FALSE, candidatos |-> <<>>, productos |-> <<>>]]

BusquedaIdle == busqueda = BusquedaVacia

AccionesIdle == bq = BqCaido /\ respuesta = <<>> /\ resultado = ResultadoVacio

TurnoIdle ==
    /\ modelo = ModeloSinConfigurar
    /\ turno = TurnoVacio
    /\ deteccion = DeteccionVacia
    /\ dialogo = <<>>
    /\ extraccion = <<>>

SesionIdle ==
    /\ almacen = AlmacenInicial(FALSE)
    /\ peticiones = <<>>
    /\ retorno = RetornoVacio

-----------------------------------------------------------------------------
(* SpecCarrito: a stand-alone Carrito under agregar_item calls.             *)

InitCarrito ==
    /\ carrito = <<>>
    /\ llamadas = <<>>
    /\ SesionIdle
    /\ ConvIdle
    /\ BusquedaIdle
    /\ AccionesIdle
    /\ TurnoIdle

AgregarItem ==
    /\ Len(llamadas) < MaxLlamadas
    /\ \E producto \in ProductosArg, cantidad \in Cantidades :
        /\ carrito' = agregar_item(carrito, producto, cantidad)
        /\ llamadas' = Append(llamadas, [id |-> producto.id,
                                         cantidad |-> cantidad,
                                         precio_final |-> producto.precio_final])
    /\ UNCHANGED <<convVars, busquedaVars, accionesVars, turnoVars, sesionVars>>

NextCarrito == AgregarItem

SpecCarrito == InitCarrito /\ [][NextCarrito]_vars

-----------------------------------------------------------------------------
(* SpecBusqueda: the two catalog searches of AIBrain called on a            *)
(* Conversacion whose context already holds the preferences, against a      *)
(* catalog fixed for the run.                                               *)

\* Bound: consecutive calls of the proactive search
MaxRepeticiones == 2

ListaFaceta == <<F27, F30>>

\* catalogs that answer the main search with a list l
McpConLista(l, donde) ==
    [disponible |-> TRUE,
     lista |-> IF donde \in {"lista", "ambos"} THEN l ELSE <<>>,
     faceta |-> CASE donde = "faceta" -> l
                  [] donde = "ambos" -> ListaFaceta
                  [] OTHER -> <<>>,
     economicos |-> IF donde = "economicos" THEN l ELSE <<>>,
     complementos |-> {}, globo_cumple |-> FALSE, descuentos |-> <<>>]

\* contexts with a budget (or only a minimum: the maximum defaults to 500)
ContextosConPresupuesto ==
    {ContextoDe("Amor", tipo, "", "", IF pmax = 0 THEN 30 ELSE 0, pmax) :
        tipo \in {"", "Ramo"}, pmax \in {0, 40, 100, 250}}

\* catalogs with complements and discounts
McpConComplementos ==
    {[disponible |-> d, lista |-> l, faceta |-> l, economicos |-> <<>>,
      complementos |-> c, globo_cumple |-> g, descuentos |-> ds] :
        d \in BOOLEAN,
        l \in {<<>>, <<F26, F27>>},
        c \in {{}, TerminosComplemento, {"peluche"}, {"rosas", "globos"}, {"globos"}},
        g \in BOOLEAN,
        ds \in {<<>>, <<F29>>, <<F28, F27>>, <<F27, F30, F28>>}}

ContextosConFacetas ==
    {ContextoDe(ocasion, tipo, flor, "", 0, pmax) :
        ocasion \in {"", "Cumpleanyos", "Amor"},
        tipo \in {"", "Ramo", "Peluche"},
        flor \in {"", "rosas"},
        pmax \in {0, 100}}

\* a colour as the only preference, with and without a budget; a budget
\* given by its minimum alone
ContextosConColor ==
    {ContextoDe("", "", flor, "rojo", pmin, pmax) :
        flor \in {"", "rosas"}, pmin \in {0, 50}, pmax \in {0, 100}}
    \cup {ContextoDe(ocasion, tipo, "", "", 50, 0) :
            ocasion \in {"", "Amor"}, tipo \in {"", "Ramo"}}

InitBusqueda ==
    /\ CarritoIdle
    /\ SesionIdle
    /\ BusquedaIdle
    /\ AccionesIdle
    /\ TurnoIdle
    /\ \/ /\ mensaje = "hola"
          /\ \E l \in ListasCombinadas \cup {ListaLarga},
                donde \in {"lista", "faceta", "economicos", "ambos"} :
                mcp = McpConLista(l, donde)
          /\ \E c \in ContextosConPresupuesto : conversacion = ConversacionNueva(c)
       \/ /\ mensaje \in {"hola", "muestrame opciones"}
          /\ mcp \in McpConComplementos
          /\ \E c \in ContextosConFacetas : conversacion = ConversacionNueva(c)
       \/ /\ mensaje \in {"hola", "muestrame opciones", "lo quiero"}
          /\ mcp \in {McpCaido, McpConLista(<<F26, F27>>, "faceta"),
                      McpConLista(<<F26>>, "economicos")}
          /\ \E c \in ContextosConColor : conversacion = ConversacionNueva(c)

\* one call of _buscar_productos_proactivo(mensaje, conversacion)
BuscarProactivo ==
    /\ busqueda.n < MaxRepeticiones
    /\ LET r == buscar_productos_proactivo(mensaje, conversacion.contexto, mcp) IN
        /\ conversacion' = [conversacion EXCEPT !.contexto = r.contexto]
        /\ busqueda' = [busqueda EXCEPT
                !.n = @ + 1,
                !.extracto = r.extracto,
                !.extracto_previo = busqueda.extracto,
                !.contexto_previo = conversacion.contexto,
                !.candidatos = productos_principales(mensaje, conversacion.contexto, mcp),
                !.servicio = servicio_proactivo(mensaje, conversacion.contexto, mcp)]
    /\ UNCHANGED <<carritoVars, mensaje, mcp, accionesVars, turnoVars, sesionVars>>

\* one call of _buscar_productos_fallback(conversacion)
BuscarFallback ==
    /\ ~busqueda.fallback.llamado
    /\ busqueda' = [busqueda EXCEPT !.fallback =
            [llamado |-> TRUE,
             candidatos |-> candidatos_fallback(conversacion.contexto, mcp),
             productos |-> buscar_productos_fallback(conversacion.contexto, mcp)]]
    /\ UNCHANGED <<carritoVars, convVars, accionesVars, turnoVars, sesionVars>>

NextBusqueda == BuscarProactivo \/ BuscarFallback

SpecBusqueda == InitBusqueda /\ [][NextBusqueda]_vars

-----------------------------------------------------------------------------
(* SpecAcciones: one call of _procesar_acciones on a text of the model, in  *)
(* a session with or without a cart, against fixed catalogs.                *)

\* Bound: tokens in a text of the model
MaxTags == 2

TokensRespuesta ==
    {Texto("Hola"),
     TagProducto("26", "Caja con 12 rosas", "50", 4),
     TagProducto("27", "Ramo de tulipanes", "gratis", 3),
     TagProducto("26", "Caja con 12 rosas", "1.2.3", 3),
     TagProducto("28", "Girasoles", "", 2),
     TagBuscar("caja"),
     TagAgregar("26", "Nada", "50", 3),
     TagAgregar("27", "Ramo de tulipanes", "120", 3),
     TagAgregar("999", "Nada", "10", 3),
     TagAgregar("G-1", "Caja con 12 rosas", "50", 3),
     TagAgregar("ROSA-001", "Ramo de 12 Rosas Rojas", "80", 3),
     TagAgregar("PELUCH-001", "Ramo de 12 Rosas Rojas", "80", 3),
     TagCheckout("codigo_random"),
     TagCheckout("ABC123"),
     TagVerCarrito,
     TagGenerarCheckout}

RespuestasModelo == UNION {[1..n -> TokensRespuesta] : n \in 0..MaxTags}

\* the session's cart: None, emptied, or holding a product
CarritosSesion ==
    {[existe |-> FALSE, items |-> <<>>],
     [existe |-> TRUE, items |-> <<>>],
     [existe |-> TRUE, items |-> <<CarritoItem("26", "Caja con 12 rosas", 1, 50)>>]}

\* the context: empty, or holding the candidate of an earlier search
ContextosSesion ==
    {ContextoVacio,
     actualizar_contexto(
        actualizar_contexto(ContextoDe("Amor", "", "", "", 0, 100),
                            "upsell_producto", upsell_producto_de(F40)),
        "ultimo_upsell_id", "40")}

\* the catalogs: <<bq, mcp>>
Catalogos ==
    {<<BqCaido, McpCaido>>,
     <<[conectado |-> TRUE, filas |-> <<F27, F26, F42>>],
       McpConLista(<<F26, F27, F28, F29>>, "faceta")>>,
     <<[conectado |-> TRUE, filas |-> <<F27, F26, F42>>], McpCaido>>,
     <<[conectado |-> TRUE, filas |-> <<>>], McpCaido>>}

InitAcciones ==
    /\ CarritoIdle
    /\ SesionIdle
    /\ BusquedaIdle
    /\ TurnoIdle
    /\ mensaje = ""
    /\ \E c \in CarritosSesion, x \in ContextosSesion :
          conversacion = [ConversacionNueva(x) EXCEPT !.carrito = c]
    /\ \E cat \in Catalogos : bq = cat[1] /\ mcp = cat[2]
    /\ respuesta \in RespuestasModelo
    /\ resultado = ResultadoVacio

\* the call returned (or raised) r
Devuelve(r) ==
    /\ resultado' = [llamado |-> TRUE, error |-> r.error, texto |-> r.texto,
                     productos |-> r.productos, acciones |-> r.acciones,
                     antes |-> conversacion]
    /\ conversacion' = [conversacion EXCEPT !.carrito = r.carrito,
                                            !.contexto = r.contexto]

\* _procesar_acciones(respuesta, conversacion)
ProcesarAcciones ==
    /\ ~resultado.llamado
    /\ \E codigo1, codigo2 \in CodigosGenerados :
        Devuelve(procesar_acciones(respuesta, conversacion, bq, mcp, codigo1, codigo2))
    /\ UNCHANGED <<carritoVars, busquedaVars, mensaje, mcp, bq, respuesta, turnoVars,
                   sesionVars>>

NextAcciones == ProcesarAcciones

SpecAcciones == InitAcciones /\ [][NextAcciones]_vars

-----------------------------------------------------------------------------
(* SpecTurno: one call of procesar_mensaje, in a session with or without a  *)
(* cart, a pending cross-sell candidate and earlier messages, against fixed *)
(* catalogs and a language model that answers, fails or is not configured.  *)

TokensTurno ==
    {Texto("Hola"), Espacio, NuevaBurbuja,
     TagProducto("26", "Caja con 12 rosas", "50", 4),
     TagProducto("40", "Chocolates Ferrero", "35", 4),
     TagAgregar("26", "Caja con 12 rosas", "50", 3),
     TagCheckout("codigo_random")}

\* the texts a configured model may answer: at most MaxTags pieces
TextosModelo == UNION {[1..n -> TokensTurno] : n \in 0..MaxTags}

\* a reply with an empty segment, a segment of white space and two texts
TextoConBurbujas ==
    <<NuevaBurbuja, Texto("Hola"), Espacio, NuevaBurbuja, Espacio, NuevaBurbuja,
      Texto("Hola")>>

ModelosDisponibles ==
    {[configurado |-> TRUE, falla |-> FALSE, texto |-> t] :
        t \in TextosModelo \cup {TextoConBurbujas}}

\* not configured, raising, answering the empty text or white space
ModelosCaidos ==
    {ModeloSinConfigurar,
     [configurado |-> TRUE, falla |-> TRUE, texto |-> <<>>],
     [configurado |-> TRUE, falla |-> FALSE, texto |-> <<>>],
     [configurado |-> TRUE, falla |-> FALSE, texto |-> <<Espacio>>]}

Mensajes ==
    {"hola", "muestrame opciones", "si", "tienes chocolates", "lo quiero",
     "horario de tienda", "rosas para mi novia hasta 100 soles"}

\* the context: empty, preferences known, or holding the candidate of an
\* earlier search
ContextosTurno ==
    {ContextoVacio,
     ContextoDe("Amor", "Ramo", "", "", 0, 100),
     actualizar_contexto(
        actualizar_contexto(ContextoDe("Amor", "", "", "", 0, 100),
                            "upsell_producto", upsell_producto_de(F40)),
        "ultimo_upsell_id", "40")}

CarritosTurno ==
    {[existe |-> FALSE, items |-> <<>>],
     [existe |-> TRUE, items |-> <<CarritoItem("43", "Globo corazon", 1, 15)>>]}

\* earlier messages: none, an offer of a complement, an offer to spend more
Historiales ==
    {<<>>,
     <<MensajeChat("assistant", <<Texto("Te gustaria agregar un globo?")>>)>>,
     <<MensajeChat("assistant",
                   <<Texto("Con S/150 te puedo mostrar mas opciones. Dale?")>>)>>}

\* a reachable server that finds nothing
McpVacio == [McpCaido EXCEPT !.disponible = TRUE]

McpSurtido ==
    [disponible |-> TRUE, lista |-> <<F26, F27>>, faceta |-> <<F27, F26, F29>>,
     economicos |-> <<F26>>, complementos |-> TerminosComplemento,
     globo_cumple |-> TRUE, descuentos |-> <<>>]

\* a server whose searches for products fail while the one for balloons
\* answers (call_tool turns each failed call into the empty list)
McpSoloGlobos == [McpVacio EXCEPT !.complementos = {"globos"}]

\* the catalogs: <<bq, mcp>>
CatalogosTurno ==
    {<<BqCaido, McpCaido>>,
     <<[conectado |-> TRUE, filas |-> <<>>], McpVacio>>,
     <<[conectado |-> TRUE, filas |-> <<F27, F26, F42>>], McpSurtido>>}

\* the catalogs of a turn that asks for a birthday present
CatalogosCumple ==
    CatalogosTurno
    \cup {<<BqCaido, McpSoloGlobos>>,
          <<BqCaido, [McpSurtido EXCEPT !.globo_cumple = FALSE]>>}

\* the texts of one piece at most
TextosBreves == {t \in TextosModelo : Len(t) <= 1}

\* messages that answer an offer or name an occasion and a budget
MensajesOferta == {"si", "para cumple 150 soles", "si para cumple 150 soles"}

InitTurno ==
    /\ CarritoIdle
    /\ SesionIdle
    /\ BusquedaIdle
    /\ respuesta = <<>>
    /\ resultado = ResultadoVacio
    /\ turno = TurnoVacio
    /\ deteccion = DeteccionVacia
    /\ dialogo = <<>>
    /\ extraccion = <<>>
    /\ \/ /\ modelo \in ModelosDisponibles
          /\ mensaje \in {"hola", "muestrame opciones", "lo quiero"}
          /\ \E cat \in CatalogosTurno : bq = cat[1] /\ mcp = cat[2]
          /\ \E c \in CarritosTurno, x \in ContextosTurno :
                conversacion = [ConversacionNueva(x) EXCEPT !.carrito = c]
       \/ /\ modelo \in ModelosCaidos
          /\ mensaje \in Mensajes
          /\ \E cat \in CatalogosTurno : bq = cat[1] /\ mcp = cat[2]
          /\ \E c \in CarritosTurno, x \in ContextosTurno, h \in Historiales :
                conversacion = [mensajes |-> h, carrito |-> c, contexto |-> x]
       \/ /\ \E t \in TextosBreves :
                modelo \in {ModeloSinConfigurar,
                            [configurado |-> TRUE, falla |-> FALSE, texto |-> t],
                            [configurado |-> TRUE, falla |-> TRUE, texto |-> t]}
          /\ mensaje \in MensajesOferta
          /\ \E cat \in CatalogosCumple : bq = cat[1] /\ mcp = cat[2]
          /\ \E c \in CarritosTurno, x \in ContextosTurno, h \in Historiales :
                conversacion = [mensajes |-> h, carrito |-> c, contexto |-> x]

\* the call returned (or raised) t
Responde(t) ==
    /\ turno' = [hecho |-> TRUE, error |-> t.error, via |-> t.via,
                 burbujas |-> t.burbujas, productos |-> t.productos,
                 acciones |-> t.acciones, upsell_prod |-> t.upsell_prod,
                 productos_parser |-> t.productos_parser,
                 proactiva |-> t.proactiva,
                 leido_detector |-> t.leido_detector,
                 leido_generar |-> t.leido_generar, texto |-> t.texto,
                 antes |-> conversacion]
    /\ conversacion' = [mensajes |-> t.mensajes, carrito |-> t.carrito,
                        contexto |-> t.contexto]

\* procesar_mensaje(conversacion, mensaje)
ProcesarMensaje ==
    /\ ~turno.hecho
    /\ \E codigo1, codigo2 \in CodigosGenerados, hora \in Horas :
          Responde(procesar_mensaje(conversacion, mensaje, modelo, mcp, bq,
                                    codigo1, codigo2, hora))
    /\ UNCHANGED <<carritoVars, busquedaVars, accionesVars, mensaje, mcp, modelo,
                   deteccion, dialogo, extraccion, sesionVars>>

NextTurno == ProcesarMensaje

SpecTurno == InitTurno /\ [][NextTurno]_vars

-----------------------------------------------------------------------------
(* Specification of the routers over the session store.                    *)

MaxPeticiones == 2

\* Stock of the product asked for
Existencias == {0, 5}

Canales == {"widget", "whatsapp", "instagram"}

\* the requests: messages (one of them empty, one blank on every channel)
\* and additions to the cart of the widget
Entradas ==
    <<Entrada("widget", "mensaje", "hola", "", 0),
      Entrada("widget", "mensaje", " ", "", 0),
      Entrada("widget", "mensaje", "", "", 0),
      Entrada("whatsapp", "mensaje", "lo quiero", "", 0),
      Entrada("whatsapp", "mensaje", " ", "", 0),
      Entrada("instagram", "mensaje", "hola", "", 0),
      Entrada("instagram", "mensaje", " ", "", 0),
      Entrada("widget", "carrito", "", "26", 0 - 1),
      Entrada("widget", "carrito", "", "26", 0),
      Entrada("widget", "carrito", "", "26", 1),
      Entrada("widget", "carrito", "", "99", 1)>>

Sesiones == {session_de(Entradas[i]) : i \in DOMAIN Entradas}

\* the requests in flight: a request is told from another by its place in
\* peticiones only, so one order of each choice of inputs stands for all
PeticionesPosibles ==
    {[p \in DOMAIN f |-> PeticionNueva(Entradas[f[p]])] :
        f \in {g \in [1..MaxPeticiones -> DOMAIN Entradas] :
                  \A p \in 1..(MaxPeticiones - 1) : g[p] <= g[p + 1]}}

\* the model of a turn: not configured, asking to add a product, asking for
\* the checkout
ModelosSesion ==
    {ModeloSinConfigurar,
     [configurado |-> TRUE, falla |-> FALSE,
      texto |-> <<TagAgregar("26", "Caja con 12 rosas", "50", 1)>>],
     [configurado |-> TRUE, falla |-> FALSE,
      texto |-> <<TagCheckout("codigo_random")>>]}

InitSesiones ==
    /\ CarritoIdle
    /\ BusquedaIdle
    /\ ConvIdle
    /\ TurnoIdle
    /\ respuesta = <<>>
    /\ resultado = ResultadoVacio
    /\ bq = [conectado |-> TRUE, filas |-> <<F26>>]
    /\ \E servidor \in BOOLEAN : almacen = AlmacenInicial(servidor)
    /\ peticiones \in PeticionesPosibles
    /\ retorno = RetornoVacio

\* the requests between their load and their save
EnCurso == {q \in DOMAIN peticiones : peticiones[q].pc = "cargado"}

Guardados == {q \in DOMAIN peticiones : peticiones[q].pc = "hecho"}

\* enviar_mensaje and the two recibir_mensaje, up to the await of the turn
Recibir(p) ==
    /\ peticiones[p].pc = "nuevo"
    /\ peticiones[p].entrada.tipo = "mensaje"
    /\ IF ~mensaje_aceptado(peticiones[p].entrada)
       THEN /\ peticiones' = [peticiones EXCEPT ![p].pc = "rechazado"]
            /\ UNCHANGED almacen
       ELSE /\ peticiones' =
                [peticiones EXCEPT ![p] =
                    recibido(@, obtener_conversacion(almacen,
                                    session_de(@.entrada), @.entrada.canal,
                                    user_de(@.entrada)))]
            /\ almacen' =
                almacen_cargado(obtener_conversacion(almacen,
                                    session_de(peticiones[p].entrada),
                                    peticiones[p].entrada.canal,
                                    user_de(peticiones[p].entrada)),
                                peticiones[p].entrada, p)
    /\ UNCHANGED <<carritoVars, convVars, busquedaVars, accionesVars, turnoVars,
                   retorno>>

\* the request p and the store after the turn returned t
respondido(p, t) ==
    IF t.error # ""
    THEN /\ peticiones' = [peticiones EXCEPT ![p].pc = "error"]
         /\ almacen' = almacen_tras_error(almacen, peticiones[p].entrada, p,
                                          t.contexto)
    ELSE /\ peticiones' =
            [peticiones EXCEPT ![p] =
                guardado(@, conversacion_del_turno(@.conv[1], @.entrada, t),
                         guardar_conversacion(almacen,
                            conversacion_del_turno(@.conv[1], @.entrada, t)),
                         EnCurso \ {p}, Cardinality(Guardados) + 1)]
         /\ almacen' =
            guardar_conversacion(almacen,
                conversacion_del_turno(peticiones[p].conv[1],
                                       peticiones[p].entrada, t)).almacen

\* the rest of the chat handlers: the turn, the preferences, the save
Responder(p) ==
    /\ peticiones[p].pc = "cargado"
    /\ \E modelo_ \in ModelosSesion :
          respondido(p, procesar_mensaje(peticiones[p].conv[1],
                            texto_del_turno(peticiones[p].entrada),
                            modelo_, mcp, bq, "RSTA1B2C3D4", "RSTZZZZ0000", 12))
    /\ UNCHANGED <<carritoVars, convVars, busquedaVars, accionesVars, turnoVars,
                   retorno>>

\* agregar_al_carrito: nothing in it awaits
AgregarAlCarrito(p) ==
    /\ peticiones[p].pc = "nuevo"
    /\ peticiones[p].entrada.tipo = "carrito"
    /\ \E stock \in Existencias :
          IF carrito_rechazado(peticiones[p].entrada, bq, stock)
          THEN /\ peticiones' = [peticiones EXCEPT ![p].pc = "rechazado"]
               /\ UNCHANGED almacen
          ELSE /\ peticiones' =
                    [peticiones EXCEPT ![p] =
                        guardado(@, carrito_agregado(almacen, @.entrada, bq).conv[1],
                                 carrito_agregado(almacen, @.entrada, bq),
                                 EnCurso, Cardinality(Guardados) + 1)]
               /\ almacen' = carrito_agregado(almacen, peticiones[p].entrada, bq).almacen
    /\ UNCHANGED <<carritoVars, convVars, busquedaVars, accionesVars, turnoVars,
                   retorno>>

NextSesiones ==
    \E p \in DOMAIN peticiones :
        \/ Recibir(p)
        \/ Responder(p)
        \/ AgregarAlCarrito(p)

SpecSesiones == InitSesiones /\ [][NextSesiones]_vars

-----------------------------------------------------------------------------
(* Specification of the SessionManager alone: loads and saves while time    *)
(* passes and the Redis server comes and goes.                              *)

MaxTics == 3

\* the step of the clock: half the retention window
Paso == SESSION_TTL \div 2

SesionesAlmacen == {"widget_1", "wa_51999"}

\* the channel and the user id a caller passes (<<>> for None), as the
\* widget and the WhatsApp webhook pass them
LlamadoresAlmacen ==
    {[canal |-> "widget", user_id |-> <<>>],
     [canal |-> "whatsapp", user_id |-> <<"51999">>]}

\* the manager is built while the server answers or while it does not
InitAlmacen ==
    /\ CarritoIdle
    /\ ConvIdle
    /\ BusquedaIdle
    /\ AccionesIdle
    /\ TurnoIdle
    /\ \E servidor \in BOOLEAN : almacen = AlmacenInicial(servidor)
    /\ peticiones = <<>>
    /\ retorno = RetornoVacio

\* session_manager.obtener_conversacion(session_id, canal, user_id)
ObtenerConversacion(session_id, canal, user_id) ==
    /\ retorno' =
        [op |-> "obtener", session_id |-> session_id,
         canal |-> canal, user_id |-> user_id,
         error |-> obtener_conversacion(almacen, session_id, canal, user_id).error,
         nueva |-> obtener_conversacion(almacen, session_id, canal, user_id).nueva,
         edad |-> edad_de(almacen, session_id),
         conv |-> obtener_conversacion(almacen, session_id, canal, user_id).conv]
    /\ almacen' = obtener_conversacion(almacen, session_id, canal, user_id).almacen
    /\ UNCHANGED <<carritoVars, convVars, busquedaVars, accionesVars, turnoVars,
                   peticiones>>

\* the conversation the caller holds, after a turn that learnt the occasion
conversacion_usada(conv) ==
    [conv EXCEPT !.contexto = actualizar_contexto(@, "ocasion", "Amor")]

\* the conversation the caller holds, after a first turn that put a product
\* into the cart
conversacion_con_compra(conv) ==
    [conv EXCEPT !.mensajes = <<MensajeChat("user", <<Texto("lo quiero")>>),
                                MensajeChat("assistant", <<Texto("Hola")>>)>>,
                 !.carrito.items = agregar_item(@, ProductoDe(F26), 2),
                 !.contexto = actualizar_contexto(@, "presupuesto_max", 150)]

\* what the caller made of the conversation it loaded
ConversacionesUsadas(conv) ==
    {conversacion_usada(conv)}
    \cup IF conv.mensajes = <<>> /\ conv.carrito.existe
         THEN {conversacion_con_compra(conv)} ELSE {}

\* session_manager.guardar_conversacion(conversacion), on the conversation
\* the last load returned
GuardarConversacion(conv) ==
    /\ retorno' =
        [op |-> "guardar", session_id |-> retorno.session_id,
         canal |-> retorno.canal, user_id |-> retorno.user_id,
         error |-> guardar_conversacion(almacen, conv).error,
         nueva |-> FALSE,
         edad |-> edad_de(almacen, retorno.session_id),
         conv |-> <<conv>>]
    /\ almacen' = guardar_conversacion(almacen, conv).almacen
    /\ UNCHANGED <<carritoVars, convVars, busquedaVars, accionesVars, turnoVars,
                   peticiones>>

\* the Redis server stops answering
CaeServidor ==
    /\ almacen.servidor
    /\ almacen' = [almacen EXCEPT !.servidor = FALSE]
    /\ UNCHANGED <<carritoVars, convVars, busquedaVars, accionesVars, turnoVars,
                   peticiones, retorno>>

\* the Redis server answers again; its keys kept expiring meanwhile
VuelveServidor ==
    /\ almacen.cliente /\ ~almacen.servidor
    /\ almacen' = [almacen EXCEPT !.servidor = TRUE]
    /\ UNCHANGED <<carritoVars, convVars, busquedaVars, accionesVars, turnoVars,
                   peticiones, retorno>>

\* time passes
Tic ==
    /\ almacen.reloj < MaxTics * Paso
    /\ almacen' = [almacen EXCEPT !.reloj = @ + Paso]
    /\ UNCHANGED <<carritoVars, convVars, busquedaVars, accionesVars, turnoVars,
                   peticiones, retorno>>

NextAlmacen ==
    \/ \E session_id \in SesionesAlmacen, ll \in LlamadoresAlmacen :
            ObtenerConversacion(session_id, ll.canal, ll.user_id)
    \/ \E conv \in IF retorno.conv = <<>> THEN {}
                     ELSE ConversacionesUsadas(retorno.conv[1]) :
            GuardarConversacion(conv)
    \/ CaeServidor
    \/ VuelveServidor
    \/ Tic

SpecAlmacen == InitAlmacen /\ [][NextAlmacen]_vars



-----------------------------------------------------------------------------
(* Claims.                                                                 *)

\* quantities added for an id over the recorded calls
CantidadesDe(id) ==
    LET deId(c) == c.id = id
        cs == SelectSeq(llamadas, deId)
    IN [i \in DOMAIN cs |-> cs[i].cantidad]

\* C1: after every agregar_item call the cart holds exactly one CartItem per
\* distinct product id added, whose quantity is the sum of the quantities
\* added for that id and whose subtotal is quantity x unit price.
C1_UnItemPorProducto ==
    /\ \A id \in ProductoIds :
        Cardinality({i \in DOMAIN carrito : carrito[i].producto_id = id})
            = IF \E k \in DOMAIN llamadas : llamadas[k].id = id THEN 1 ELSE 0
    /\ \A i \in DOMAIN carrito :
        /\ carrito[i].cantidad = SumaSeq(CantidadesDe(carrito[i].producto_id))
        /\ carrito[i].subtotal = carrito[i].cantidad * carrito[i].precio_unitario

\* the same id added twice with different quantities, another id in between
C1_Witness ==
    /\ Len(llamadas) = 3
    /\ llamadas[1].id = "26" /\ llamadas[2].id = "27" /\ llamadas[3].id = "26"
    /\ llamadas[1].cantidad = 2 /\ llamadas[3].cantidad = 1
    /\ Len(carrito) = 2
    /\ carrito[1].cantidad = 3

-----------------------------------------------------------------------------
(* Claims on the catalog searches (SpecBusqueda).                          *)

Minimo(a, b) == IF a < b THEN a ELSE b

\* the context had what both searches need: a budget and a facet
FallbackBusca ==
    /\ busqueda.fallback.llamado
    /\ "presupuesto_max" \in DOMAIN conversacion.contexto
    /\ {"ocasion", "tipo_producto", "color_preferido", "flor_preferida"}
            \cap DOMAIN conversacion.contexto # {}

\* C7: the excerpt of _buscar_productos_proactivo holds only candidates whose
\* final price is <= the budget max when at least one candidate qualifies;
\* when none qualifies it holds the three cheapest candidates in ascending
\* price order; it is never empty while the catalog returned candidates.
C7_ExtractoEnPresupuesto ==
    LET cands == busqueda.candidatos
        lineas == busqueda.extracto.lineas
        presupuesto == presupuesto_de(conversacion.contexto)
    IN (/\ busqueda.n >= 1
        /\ contexto_suficiente(mensaje, conversacion.contexto)
        /\ cands # <<>>)
       => /\ ~busqueda.extracto.vacio
          /\ lineas # <<>>
          /\ \A i \in DOMAIN lineas : \E j \in DOMAIN cands :
                cands[j].ID = lineas[i].id /\ cands[j].Precio_final = lineas[i].precio
          /\ IF \E j \in DOMAIN cands : cands[j].Precio_final <= presupuesto
             THEN \A i \in DOMAIN lineas : lineas[i].precio <= presupuesto
             ELSE /\ Len(lineas) = Minimo(3, Len(cands))
                  /\ \A i, k \in DOMAIN lineas :
                        i < k => lineas[i].precio <= lineas[k].precio
                  /\ \A j \in DOMAIN cands :
                        (\A i \in DOMAIN lineas : lineas[i].id # cands[j].ID)
                        => \A i \in DOMAIN lineas :
                                lineas[i].precio <= cands[j].Precio_final

\* six candidates, none within a budget of 40: the excerpt is 50, 60, 70
C7_Witness ==
    /\ busqueda.n >= 1
    /\ Len(busqueda.candidatos) = 6
    /\ presupuesto_de(conversacion.contexto) = 40
    /\ [i \in DOMAIN busqueda.extracto.lineas |-> busqueda.extracto.lineas[i].precio]
            = <<50, 60, 70>>

MismaEntrada(a, b, k) ==
    /\ (k \in DOMAIN a) = (k \in DOMAIN b)
    /\ (k \in DOMAIN a) => a[k] = b[k]

\* C9: a second consecutive call of _buscar_productos_proactivo with the
\* same message, Conversacion and catalog returns the same excerpt as the
\* first and leaves the same upsell_producto and ultimo_upsell_id.
C9_SegundaLlamadaIgual ==
    busqueda.n >= 2
    => /\ busqueda.extracto = busqueda.extracto_previo
       /\ MismaEntrada(conversacion.contexto, busqueda.contexto_previo, "upsell_producto")
       /\ MismaEntrada(conversacion.contexto, busqueda.contexto_previo, "ultimo_upsell_id")

\* two calls, the first of which stored an upsell candidate
C9_Witness ==
    /\ busqueda.n = 2
    /\ busqueda.extracto.cross_sell
    /\ busqueda.extracto.lineas # <<>>
    /\ "upsell_producto" \in DOMAIN conversacion.contexto
    /\ conversacion.contexto["ultimo_upsell_id"] = "44"

-----------------------------------------------------------------------------
(* Claims on _procesar_acciones (SpecAcciones).                            *)

\* the first [AGREGAR_CARRITO:...] tag of the text resolves to no product,
\* neither by id nor by name
AgregarSinResolver ==
    LET agregar == DeTipo(respuesta, "AGREGAR_CARRITO")
        nombre == IF agregar[1].n > 1 THEN agregar[1].b ELSE "Producto"
    IN /\ agregar # <<>>
       /\ ~isdigit(agregar[1].a) \/ obtener_producto(bq, agregar[1].a) = <<>>
       /\ nombre = "" \/ bq_buscar_productos(bq, nombre, "", "", 1) = <<>>
       /\ resolver_producto(agregar[1], bq) = <<>>

\* C3: for a text whose [PRODUCTO:...] tags all have at least three fields,
\* _procesar_acciones returns a cleaned text with no [PRODUCTO:...] tag and
\* a display list with exactly one record per tag occurrence, in order.
\* (Stated on texts holding nothing but words and such tags.)
C3_UnRegistroPorTag ==
    LET tags == DeTipo(respuesta, "PRODUCTO") IN
    (/\ resultado.llamado
     /\ tags # <<>>
     /\ \A i \in DOMAIN respuesta : respuesta[i].k \in {"texto", "PRODUCTO"}
     /\ \A i \in DOMAIN tags : tags[i].n >= 3)
    => /\ resultado.error = ""
       /\ DeTipo(resultado.texto, "PRODUCTO") = <<>>
       /\ [i \in DOMAIN resultado.productos |-> resultado.productos[i].id]
            = [i \in DOMAIN tags |-> tags[i].a]

\* C4: when the text holds [CHECKOUT:codigo_random], a checkout effect is
\* recorded whose code is "RST" and eight characters of A-Z0-9, whose URL
\* embeds that code, and which carries the snapshot of the session's cart.
\* (Stated on texts without [PRODUCTO:...] tags.)
C4_CheckoutConCarrito ==
    LET checkout == DeTipo(respuesta, "CHECKOUT") IN
    (/\ resultado.llamado
     /\ checkout # <<>>
     /\ checkout[1].a = "codigo_random"
     /\ DeTipo(respuesta, "PRODUCTO") = <<>>)
    => /\ resultado.error = ""
       /\ \E i \in DOMAIN resultado.acciones :
            LET e == resultado.acciones[i] IN
            /\ e.tipo = "checkout"
            /\ "carrito" \in DOMAIN e
            /\ e.codigo \in CodigosGenerados
            /\ e.url = checkout_url(e.codigo)
            /\ e.carrito = conversacion.carrito

\* C5: whatever the [AGREGAR_CARRITO:...] tags of the text, the cleaned
\* text returned by _procesar_acciones holds no [AGREGAR_CARRITO:...] tag.
C5_SinTagAgregar ==
    (resultado.llamado /\ resultado.error = "")
    => DeTipo(resultado.texto, "AGREGAR_CARRITO") = <<>>

\* C6: when the [AGREGAR_CARRITO:...] directive resolves neither by id nor
\* by name, the cart and the context are left unchanged, no agregar_carrito
\* effect is recorded and _procesar_acciones raises no error.
C6_FalloSilencioso ==
    (resultado.llamado /\ AgregarSinResolver)
    => /\ conversacion.carrito = resultado.antes.carrito
       /\ conversacion.contexto = resultado.antes.contexto
       /\ \A i \in DOMAIN resultado.acciones :
            resultado.acciones[i].tipo # "agregar_carrito"
       /\ resultado.error = ""

-----------------------------------------------------------------------------
(* procesar_mensaje: the cross-sell card and the reply without backends.    *)

\* C2: when procesar_mensaje finds a pending cross-sell candidate in the
\* context after the directives of the reply displayed at least one product
\* (the candidate's own id included, once or several times), the product
\* list it returns holds the candidate's id exactly once, as its last
\* element, flagged es_upsell.
C2_UpsellUnaVezAlFinal ==
    (/\ turno.hecho
     /\ turno.error = ""
     /\ turno.upsell_prod # <<>>
     /\ turno.productos_parser # <<>>)
    => LET ps == turno.productos
           id == turno.upsell_prod[1].id
       IN /\ ps # <<>>
          /\ ps[Len(ps)].id = id
          /\ "es_upsell" \in DOMAIN ps[Len(ps)]
          /\ ps[Len(ps)].es_upsell
          /\ \A i \in 1..(Len(ps) - 1) : ps[i].id # id

\* the proactive search of this turn set the candidate, the reply displayed
\* the candidate's id twice, and the list returned holds it once
C2_Witness ==
    /\ turno.hecho
    /\ turno.error = ""
    /\ "upsell_producto" \notin DOMAIN turno.antes.contexto
    /\ turno.upsell_prod # <<>>
    /\ Cardinality({i \in DOMAIN turno.productos_parser :
            turno.productos_parser[i].id = turno.upsell_prod[1].id}) = 2
    /\ Len(turno.productos) = 1
    /\ turno.productos[1].id = turno.upsell_prod[1].id

\* the model client is not configured, raises, or answers the empty text
ModeloNoDisponible == ~modelo.configurado \/ modelo.falla \/ modelo.texto = <<>>

\* every catalog call fails or returns nothing
CatalogoNoDisponible ==
    /\ mcp \in {McpCaido, McpVacio}
    /\ bq.conectado => bq.filas = <<>>

-----------------------------------------------------------------------------
(* procesar_mensaje: directives, the early return, the birthday scenario.   *)

\* the model client answered with a text of its own
ModeloResponde == modelo.configurado /\ ~modelo.falla

\* C11: for every text of the model, whatever directives it combines and
\* whatever the session holds, procesar_mensaje returns without raising and
\* no add-to-cart or checkout directive is left in the reply.
C11_TurnoSinError ==
    (turno.hecho /\ ModeloResponde)
    => /\ turno.error = ""
       /\ \A i \in DOMAIN turno.burbujas :
            /\ DeTipo(turno.burbujas[i], "AGREGAR_CARRITO") = <<>>
            /\ DeTipo(turno.burbujas[i], "CHECKOUT") = <<>>

\* what _detectar_upselling_response answers to the turn's message
RespuestaUpsell ==
    detectar_upselling_response(mensaje, turno.antes.mensajes,
                                turno.antes.carrito, mcp)

\* C12: when the upsell-acceptance detector returns a result, the turn
\* appends exactly the user message and then the detector's reply to the
\* history and returns that result: the text of the model is not used, no
\* directive is parsed, no fallback runs and the cart is left as it was.
C12_RetornoTemprano ==
    (turno.hecho /\ RespuestaUpsell.hay)
    => /\ turno.error = ""
       /\ conversacion.mensajes =
            turno.antes.mensajes
            \o <<MensajeChat("user", <<Texto(mensaje)>>),
                 MensajeChat("assistant", RespuestaUpsell.texto)>>
       /\ turno.burbujas = <<RespuestaUpsell.texto>>
       /\ turno.productos = RespuestaUpsell.productos
       /\ turno.acciones = <<>>
       /\ turno.productos_parser = <<>>
       /\ turno.proactiva = ""
       /\ conversacion.carrito = turno.antes.carrito

\* the detector answered with the balloons while the model had an
\* add-to-cart directive ready: two messages were appended, the cart is as
\* it was
C12_Witness ==
    /\ turno.hecho
    /\ RespuestaUpsell.hay
    /\ ModeloResponde
    /\ DeTipo(modelo.texto, "AGREGAR_CARRITO") # <<>>
    /\ bq.conectado
    /\ Len(conversacion.mensajes) = Len(turno.antes.mensajes) + 2
    /\ turno.burbujas = <<<<Texto("Aqui tienes los globos disponibles:")>>>>
    /\ conversacion.carrito = turno.antes.carrito

\* the message sets the occasion to birthday and the budget max to 150 on
\* an empty context, and neither a flower nor a product type
CumpleCon150 ==
    LET c == extraer_preferencias(mensaje, ContextoVacio) IN
    /\ turno.antes.contexto = ContextoVacio
    /\ DOMAIN c = {"ocasion", "presupuesto_max"}
    /\ c["ocasion"] = "Cumpleanyos"
    /\ c["presupuesto_max"] = 150

\* the catalog lists balloons
CatalogoConGlobos == buscar_productos(mcp, <<"globos">>) # <<>>

\* the list returned ends with the balloon card, flagged as upsell (the
\* birthday balloon when the catalog lists one)
TerminaEnGlobo ==
    LET ps == turno.productos IN
    /\ ps # <<>>
    /\ ps[Len(ps)].id = (IF mcp.globo_cumple THEN "44" ELSE "43")
    /\ "es_upsell" \in DOMAIN ps[Len(ps)]
    /\ ps[Len(ps)].es_upsell

LoQuieroConAgregar ==
    /\ mensaje = "lo quiero"
    /\ turno.antes.carrito.items = <<>>
    /\ ModeloResponde
    /\ DeTipo(modelo.texto, "PRODUCTO") = <<>>
    /\ DeTipo(modelo.texto, "AGREGAR_CARRITO") # <<>>
    /\ resolver_producto(DeTipo(modelo.texto, "AGREGAR_CARRITO")[1], bq) # <<>>

\* C14: in such a turn the cart ends with exactly one item of quantity 1
\* and the turn returns an empty product list: no fallback cards and no
\* upsell card, whatever the context holds.
C14_LoQuieroSinTarjetas ==
    (turno.hecho /\ LoQuieroConAgregar)
    => /\ turno.error = ""
       /\ Len(conversacion.carrito.items) = 1
       /\ conversacion.carrito.items[1].cantidad = 1
       /\ turno.productos = <<>>

-----------------------------------------------------------------------------
(* Claims on the routers and the session store (SpecSesiones).  A chat     *)
(* handler is left between its load and its save whenever the turn awaits   *)
(* the catalog server; with the networked store, handlers of several worker *)
(* processes run side by side in any case.                                  *)

MismaSesion(p, q) ==
    session_de(peticiones[p].entrada) = session_de(peticiones[q].entrada)

\* p saved while q, of the same session, was between its load and its save,
\* and no save of that session came after q's
PisadoPor(p, q) ==
    /\ p # q
    /\ MismaSesion(p, q)
    /\ peticiones[p].pc = "hecho" /\ peticiones[q].pc = "hecho"
    /\ peticiones[q].entrada.tipo = "mensaje"
    /\ q \in peticiones[p].solapa
    /\ \A r \in Guardados : MismaSesion(r, q) => peticiones[r].orden <= peticiones[q].orden

\* quantity of a product in a stored conversation
CantidadGuardada(data, id) ==
    IF data.carrito = <<>> THEN 0
    ELSE SumaSeq([i \in DOMAIN data.carrito[1].items |->
                    IF data.carrito[1].items[i].producto_id = id
                    THEN data.carrito[1].items[i].cantidad ELSE 0])

\* C15: two turns of one session run with no lock: when both loaded the
\* conversation before either saved, the stored conversation after both is
\* exactly the one the later save wrote, made of what that turn loaded and
\* its own two messages and cart change; what the earlier save wrote is gone.
C15_UltimoGuardadoGana ==
    \A p, q \in DOMAIN peticiones :
        PisadoPor(p, q) =>
            LET s == session_de(peticiones[q].entrada)
                visto == peticiones[q].visto[1]
                escrito == peticiones[q].escrito[1]
            IN /\ datos_de(almacen, s) = <<escrito>>
               /\ Len(escrito.mensajes) = Len(visto.mensajes) + 2
               /\ SubSeq(escrito.mensajes, 1, Len(visto.mensajes)) = visto.mensajes
               /\ escrito.mensajes[Len(visto.mensajes) + 1].role = "user"
               /\ escrito.mensajes[Len(visto.mensajes) + 2].role = "assistant"
               /\ CantidadGuardada(escrito, "26") - CantidadGuardada(visto, "26")
                    \in {0, 1}

\* two "lo quiero" of one WhatsApp user on the networked store: the first
\* to save added a product, the second did not, and the stored conversation
\* has two messages and an empty cart
C15_Witness ==
    \E p, q \in DOMAIN peticiones :
        /\ PisadoPor(p, q)
        /\ almacen.cliente
        /\ peticiones[p].entrada.canal = "whatsapp"
        /\ peticiones[p].visto = peticiones[q].visto
        /\ CantidadGuardada(peticiones[p].escrito[1], "26") = 1
        /\ Len(peticiones[p].escrito[1].mensajes) = 2
        /\ CantidadGuardada(datos_de(almacen, "wa_51999")[1], "26") = 0
        /\ Len(datos_de(almacen, "wa_51999")[1].mensajes) = 2

\* C16: under any interleaving, a step of a request of one session (the
\* load, the turn and the save, or the addition to the cart) leaves the
\* stored conversation, cart and context of every other session, and the
\* conversation every other request holds, as they were.
C16_SesionesAisladas ==
    [][\A p \in DOMAIN peticiones :
          peticiones'[p] # peticiones[p] =>
             /\ \A s \in Sesiones \ {session_de(peticiones[p].entrada)} :
                   datos_de(almacen', s) = datos_de(almacen, s)
             /\ \A q \in DOMAIN peticiones \ {p} : peticiones'[q] = peticiones[q]]_vars

\* a WhatsApp turn and an Instagram turn overlapped on the networked store
\* and each session holds what its own turn wrote
C16_Witness ==
    \E p, q \in DOMAIN peticiones :
        /\ almacen.cliente
        /\ peticiones[p].entrada.canal = "whatsapp"
        /\ peticiones[q].entrada.canal = "instagram"
        /\ peticiones[p].pc = "hecho" /\ peticiones[q].pc = "hecho"
        /\ q \in peticiones[p].solapa
        /\ CantidadGuardada(peticiones[p].escrito[1], "26") = 1
        /\ datos_de(almacen, "wa_51999") = peticiones[p].escrito
        /\ datos_de(almacen, "ig_777") = peticiones[q].escrito

\* C17: after any sequence of add-to-cart directives and of widget
\* add-to-cart requests, whatever integer the quantity parameter is, every
\* CartItem of every stored cart has a quantity >= 1.
C17_CantidadesPositivas ==
    \A s \in Sesiones :
        datos_de(almacen, s) # <<>> /\ datos_de(almacen, s)[1].carrito # <<>>
        => \A i \in DOMAIN datos_de(almacen, s)[1].carrito[1].items :
                datos_de(almacen, s)[1].carrito[1].items[i].cantidad >= 1

\* the text of a message is empty or white space only
EnBlanco(e) == e.tipo = "mensaje" /\ (e.texto = "" \/ Recortados[e.texto] = "")

\* C18: an empty or whitespace-only message is rejected at the boundary of
\* every channel (widget, WhatsApp, Instagram) before procesar_mensaje is
\* called: its request loads no conversation, runs no turn and saves
\* nothing, so the stored conversation of its session stays as it was.
C18_EnBlancoRechazado ==
    \A p \in DOMAIN peticiones :
        EnBlanco(peticiones[p].entrada)
        => /\ peticiones[p].pc \in {"nuevo", "rechazado"}
           /\ peticiones[p].visto = <<>>
           /\ peticiones[p].escrito = <<>>

-----------------------------------------------------------------------------
(* Claims on the SessionManager (SpecAlmacen).                             *)

\* C19: when the networked session store cannot be reached, at startup or
\* at any later moment, obtener_conversacion and guardar_conversacion fall
\* back to the in-memory map and raise nothing to the caller.
C19_SinErrorAlLlamador ==
    retorno.op # "" =>
        /\ retorno.error = ""
        /\ (~almacen.servidor => retorno.session_id \in DOMAIN almacen.local)

\* C20: a load finds no conversation, and creates a fresh one, exactly when
\* the session was never saved or its last save is a retention window
\* (24 hours) or more old, every save restarting the window; on the
\* networked store and on the in-memory map alike.
C20_VentanaDeRetencion ==
    (retorno.op = "obtener" /\ retorno.error = "")
    => (retorno.nueva <=> (retorno.edad = 0 - 1 \/ retorno.edad >= SESSION_TTL))

-----------------------------------------------------------------------------
(* Claims on the order of the steps of a turn (SpecTurno).                 *)

\* the context c holds every facet the message alone yields
ConFacetasDe(c, msg) ==
    \A k \in DOMAIN extraer_preferencias(msg, ContextoVacio) :
        k \in DOMAIN c /\ c[k] = extraer_preferencias(msg, ContextoVacio)[k]

\* C21: in every turn the preferences of the current message are extracted
\* before the upsell-acceptance detector, the proactive search and the
\* construction of the prompt run: the context the conversation holds when
\* each of them is called is the loaded context updated with the facets of
\* the current message.
C21_PreferenciasPrimero ==
    turno.hecho =>
        /\ turno.leido_detector
                = <<extraer_preferencias(mensaje, turno.antes.contexto)>>
        /\ ConFacetasDe(turno.leido_detector[1], mensaje)
        /\ turno.via = "" =>
                /\ turno.leido_generar = turno.leido_detector
                /\ ConFacetasDe(turno.leido_generar[1], mensaje)

\* a configured model, a context that knew another occasion and budget, and
\* a message naming a birthday and 150 soles: the proactive search ran on a
\* context that has both
C21_Witness ==
    /\ turno.hecho /\ turno.via = "" /\ turno.proactiva = "disparada"
    /\ modelo.configurado
    /\ mensaje = "para cumple 150 soles"
    /\ "ocasion" \in DOMAIN turno.antes.contexto
    /\ turno.antes.contexto["ocasion"] = "Amor"
    /\ turno.leido_generar[1]["ocasion"] # "Amor"
    /\ turno.leido_generar[1]["presupuesto_max"] = 150

-----------------------------------------------------------------------------
(* Claims on the directives (SpecAcciones).                                *)

\* quantity of a product in a cart
CantidadEn(carro, id) ==
    SumaSeq([i \in DOMAIN carro.items |->
                IF carro.items[i].producto_id = id THEN carro.items[i].cantidad ELSE 0])

\* ids of the catalog rows and of the items of the carts
IdsConocidos ==
    {"26", "27", "28", "29", "40", "42", "999", "G-1", "ROSA-001", "PELUCH-001"}

\* the add-to-cart directive the call works on, once the product tags have
\* raised nothing: the first [AGREGAR_CARRITO:...] tag of the text
AgregarLeido ==
    /\ resultado.llamado
    /\ DeTipo(respuesta, "AGREGAR_CARRITO") # <<>>
    /\ resultado.error # "ValueError"

\* ... and it resolves to a product
AgregarResuelve ==
    /\ AgregarLeido
    /\ resolver_producto(DeTipo(respuesta, "AGREGAR_CARRITO")[1], bq) # <<>>

\* C22: when one output holds an add-to-cart directive that resolves and a
\* checkout directive, in either order in the text, the add is applied
\* first and the checkout effect is recorded with a snapshot of the cart
\* that includes the added item.
C22_AgregarAntesDeCheckout ==
    (AgregarResuelve /\ DeTipo(respuesta, "CHECKOUT") # <<>>)
    => /\ resultado.error = ""
       /\ \E i \in DOMAIN resultado.acciones :
            /\ resultado.acciones[i].tipo = "checkout"
            /\ "carrito" \in DOMAIN resultado.acciones[i]
            /\ CantidadEn(resultado.acciones[i].carrito,
                    resolver_producto(DeTipo(respuesta, "AGREGAR_CARRITO")[1], bq)[1].id)
                >= 1

\* C23: an add-to-cart directive whose product id exists in the catalog
\* adds exactly that product, whatever the form of the id and whatever the
\* name in the tag: the name is looked up only when the id finds nothing.
C23_AgregaElDelId ==
    (/\ AgregarLeido
     /\ obtener_producto(bq, DeTipo(respuesta, "AGREGAR_CARRITO")[1].a) # <<>>)
    => \A id \in IdsConocidos :
          CantidadEn(conversacion.carrito, id) - CantidadEn(resultado.antes.carrito, id)
            = IF id = DeTipo(respuesta, "AGREGAR_CARRITO")[1].a THEN 1 ELSE 0

\* C24: after an add-to-cart directive resolved, the conversation has a
\* cart (created when there was none) in which the quantity of that product
\* is one more than before and nothing else changed; the context no longer
\* holds ultimo_upsell_id and every other key is as it was.
C24_EfectoDeAgregar ==
    AgregarResuelve =>
        LET producto == resolver_producto(DeTipo(respuesta, "AGREGAR_CARRITO")[1], bq)[1]
        IN /\ conversacion.carrito.existe
           /\ \A id \in IdsConocidos :
                CantidadEn(conversacion.carrito, id)
                    - CantidadEn(resultado.antes.carrito, id)
                  = IF id = producto.id THEN 1 ELSE 0
           /\ DOMAIN conversacion.contexto
                = DOMAIN resultado.antes.contexto \ {"ultimo_upsell_id"}
           /\ \A k \in DOMAIN conversacion.contexto :
                conversacion.contexto[k] = resultado.antes.contexto[k]

\* no cart and a context with a pending candidate and its id: the cart is
\* created with the product, the candidate stays, its id is gone
C24_Witness ==
    /\ AgregarResuelve
    /\ resultado.error = ""
    /\ ~resultado.antes.carrito.existe
    /\ "ultimo_upsell_id" \in DOMAIN resultado.antes.contexto
    /\ Len(conversacion.carrito.items) = 1
    /\ conversacion.carrito.items[1].producto_id = "26"
    /\ conversacion.carrito.items[1].cantidad = 1
    /\ "upsell_producto" \in DOMAIN conversacion.contexto
    /\ "ultimo_upsell_id" \notin DOMAIN conversacion.contexto

\* C25: a directive tag whose fields are incomplete (a [PRODUCTO:...] tag
\* with fewer than three fields) is removed from the cleaned text and gives
\* no display record and no effect.
C25_TagIncompletoRetirado ==
    (resultado.llamado /\ resultado.error = "")
    => /\ \A i \in DOMAIN resultado.texto :
            ~(resultado.texto[i].k = "PRODUCTO" /\ resultado.texto[i].n < 3)
       /\ \A i \in DOMAIN respuesta :
            (respuesta[i].k = "PRODUCTO" /\ respuesta[i].n < 3)
            => /\ \A j \in DOMAIN resultado.productos :
                    resultado.productos[j].id # respuesta[i].a
               /\ \A j \in DOMAIN resultado.acciones :
                    resultado.acciones[j].tipo = "mostrar_producto"
                    => resultado.acciones[j].producto.id # respuesta[i].a

\* the checkout effects of the call
EfectosCheckout ==
    {i \in DOMAIN resultado.acciones : resultado.acciones[i].tipo = "checkout"}

\* C26: with a cart that holds items, [GENERAR_CHECKOUT] records a checkout
\* effect with the fields of the [CHECKOUT:code] effect: a generated RST
\* code, the URL that embeds it and the snapshot of the cart; with an empty
\* or absent cart it records no checkout effect and leaves the cart as it
\* was.  (Stated on texts without a [CHECKOUT:...] tag.)
C26_GenerarCheckout ==
    (/\ resultado.llamado /\ resultado.error = ""
     /\ DeTipo(respuesta, "GENERAR_CHECKOUT") # <<>>
     /\ DeTipo(respuesta, "CHECKOUT") = <<>>)
    => IF conversacion.carrito.existe /\ conversacion.carrito.items # <<>>
       THEN \E i \in EfectosCheckout :
                LET e == resultado.acciones[i] IN
                /\ e.codigo \in CodigosGenerados
                /\ e.url = checkout_url(e.codigo)
                /\ "carrito" \in DOMAIN e
                /\ e.carrito = conversacion.carrito
       ELSE /\ EfectosCheckout = {}
            /\ conversacion.carrito = resultado.antes.carrito


-----------------------------------------------------------------------------
(* SpecDetector: _detectar_upselling_response alone, over histories where  *)
(* an offer of a complement is followed by further messages.               *)

\* Messages that follow the offer in the history
MaxRelleno == 11

\* k messages with no offer in them: the user and the assistant in turn
Relleno(k) ==
    [i \in 1..k |->
        IF i % 2 = 1 THEN MensajeChat("user", <<Texto("hola")>>)
        ELSE MensajeChat("assistant", <<Texto("Mira estas opciones:")>>)]

Oferta(texto) == MensajeChat("assistant", <<Texto(texto)>>)

\* questions of the assistant that name a complement, or only "agregar"
OfertasDetector ==
    {"Te gustaria agregar un globo?",
     "Tambien tenemos packs con flores y chocolates. Te muestro?",
     "Quieres un peluche?",
     "Quieres chocolates o un peluche?",
     "Quieres globos, chocolates o un peluche?",
     "Tu carrito esta vacio. Que quieres agregar?"}

OfertasAntiguas == {"Quieres un peluche?", "Te gustaria agregar un globo?"}

\* no offer, one offer, or an older offer and a later one
HistorialesDetector ==
    {Relleno(k) : k \in {0, 2}}
    \cup {<<Oferta(o)>> \o Relleno(k) : o \in OfertasDetector, k \in 0..MaxRelleno}
    \cup {<<Oferta(a)>> \o Relleno(j) \o <<Oferta(o)>> \o Relleno(k) :
            a \in OfertasAntiguas, j \in {0, 1}, o \in OfertasDetector,
            k \in {0, 1, MaxRelleno - 2, MaxRelleno - 1}}

\* no cart, an empty one, each complement in it, one under another id
CarritosDetector ==
    {[existe |-> FALSE, items |-> <<>>],
     [existe |-> TRUE, items |-> <<>>],
     [existe |-> TRUE, items |-> <<CarritoItem("43", "Globo corazon", 1, 15)>>],
     [existe |-> TRUE, items |-> <<CarritoItem("40", "Chocolates Ferrero", 1, 35)>>],
     [existe |-> TRUE, items |-> <<CarritoItem("41", "Oso de peluche", 1, 79)>>],
     [existe |-> TRUE, items |-> <<CarritoItem("G-1", "Globo corazon", 2, 15)>>]}

MensajesDetector == {"si", "hola", "si al carrito", "siempre", "muestrame opciones"}

CatalogosDetector ==
    {McpCaido, McpSurtido, McpSoloGlobos,
     [McpVacio EXCEPT !.complementos = {"chocolates", "peluche"}]}

InitDetector ==
    /\ CarritoIdle
    /\ SesionIdle
    /\ BusquedaIdle
    /\ AccionesIdle
    /\ TurnoIdle
    /\ mensaje \in MensajesDetector
    /\ mcp \in CatalogosDetector
    /\ \E h \in HistorialesDetector, c \in CarritosDetector :
          conversacion = [mensajes |-> h, carrito |-> c, contexto |-> ContextoVacio]

\* what the call returned, with the offer it read from the history
detectado(r, msg, mensajes) ==
    [hecho |-> TRUE, hay |-> r.hay, texto |-> r.texto, productos |-> r.productos,
     buscada |-> pasa_filtros(msg),
     oferta |-> IF pasa_filtros(msg) THEN oferta_encontrada(mensajes) ELSE <<>>]

\* _detectar_upselling_response(mensaje, conversacion)
Detectar ==
    /\ ~deteccion.hecho
    /\ deteccion' = detectado(detectar_upselling_response(
                                  mensaje, conversacion.mensajes,
                                  conversacion.carrito, mcp),
                              mensaje, conversacion.mensajes)
    /\ UNCHANGED <<carritoVars, convVars, busquedaVars, accionesVars, modelo,
                   turno, dialogo, extraccion, sesionVars>>

NextDetector == Detectar

SpecDetector == InitDetector /\ [][NextDetector]_vars

-----------------------------------------------------------------------------
(* SpecDialogo: the turns of one session, one after the other, each on the *)
(* conversation the turn before it saved.                                  *)

\* Turns of the session
MaxTurnos == 2

MensajesDialogo ==
    {"hola", "para cumple 150 soles", "tienes chocolates", "si", "lo quiero"}

\* the model of a turn: not configured, a reply of words alone, a reply
\* that offers a complement, a reply that displays a product
ModelosDialogo ==
    {ModeloSinConfigurar,
     [configurado |-> TRUE, falla |-> FALSE, texto |-> <<Texto("Hola")>>],
     [configurado |-> TRUE, falla |-> FALSE,
      texto |-> <<Texto("Te gustaria agregar un globo?")>>],
     [configurado |-> TRUE, falla |-> FALSE,
      texto |-> <<Texto("Hola"), NuevaBurbuja,
                  TagProducto("26", "Caja con 12 rosas", "50", 4)>>]}

CatalogosDialogo ==
    {<<BqCaido, McpCaido>>,
     <<BqCaido, McpSurtido>>,
     <<[conectado |-> TRUE, filas |-> <<F26>>],
       [McpSurtido EXCEPT !.globo_cumple = FALSE]>>}

InitDialogo ==
    /\ CarritoIdle
    /\ SesionIdle
    /\ BusquedaIdle
    /\ TurnoIdle
    /\ respuesta = <<>>
    /\ resultado = ResultadoVacio
    /\ mensaje = ""
    /\ conversacion = ConversacionNueva(ContextoVacio)
    /\ \E cat \in CatalogosDialogo : bq = cat[1] /\ mcp = cat[2]

\* the turn as the session keeps it: what went in and what came out
turno_del_dialogo(conv, msg, modelo_, t) ==
    [mensaje |-> msg, modelo |-> modelo_, antes |-> conv, error |-> t.error,
     via |-> t.via, proactiva |-> t.proactiva, burbujas |-> t.burbujas,
     productos |-> t.productos, productos_parser |-> t.productos_parser,
     upsell_prod |-> t.upsell_prod,
     mensajes |-> t.mensajes, contexto |-> t.contexto, carrito |-> t.carrito]

\* widget.py 147-153: the conversation saved after the turn; a turn that
\* raised saves nothing
conversacion_guardada(conv, msg, t) ==
    IF t.error # "" THEN conv
    ELSE [mensajes |-> t.mensajes, carrito |-> t.carrito,
          contexto |-> extraer_preferencias(msg, t.contexto)]

\* enviar_mensaje on the session: load, procesar_mensaje, save
Turno(msg, modelo_) ==
    /\ Len(dialogo) < MaxTurnos
    /\ mensaje' = msg
    /\ dialogo' = Append(dialogo,
            turno_del_dialogo(conversacion, msg, modelo_,
                procesar_mensaje(conversacion, msg, modelo_, mcp, bq,
                                 "RSTA1B2C3D4", "RSTZZZZ0000", 12)))
    /\ conversacion' = conversacion_guardada(conversacion, msg,
            procesar_mensaje(conversacion, msg, modelo_, mcp, bq,
                             "RSTA1B2C3D4", "RSTZZZZ0000", 12))
    /\ UNCHANGED <<carritoVars, mcp, busquedaVars, accionesVars, modelo, turno,
                   deteccion, extraccion, sesionVars>>

NextDialogo == \E msg \in MensajesDialogo, modelo_ \in ModelosDialogo : Turno(msg, modelo_)

SpecDialogo == InitDialogo /\ [][NextDialogo]_vars

-----------------------------------------------------------------------------
(* SpecPreferencias: extraer_preferencias called on a conversation.        *)

\* messages with one amount, with a range, with a number that is no amount
MensajesPreferencias ==
    {"hola", "muestrame opciones", "tienes chocolates", "lo quiero",
     "rosas para mi novia hasta 100 soles", "para cumple 150 soles",
     "entre 100 y 200 soles", "2 a 5 rosas", "tengo 20 soles", "quiero 12 rosas",
     "3 ramos hasta 80 soles", "entre 20 y 40 soles"}

\* what earlier messages left in the context
ContextosPreferencias ==
    {ContextoVacio,
     ContextoDe("Amor", "", "", "", 0, 100),
     ContextoDe("", "Ramo", "", "", 50, 250),
     ContextoDe("Cumpleanyos", "", "rosas", "rojo", 0, 0),
     ContextoDe("", "", "", "", 0, 40)}

InitPreferencias ==
    /\ CarritoIdle
    /\ SesionIdle
    /\ BusquedaIdle
    /\ AccionesIdle
    /\ TurnoIdle
    /\ mcp = McpCaido
    /\ mensaje \in MensajesPreferencias
    /\ \E c \in ContextosPreferencias : conversacion = ConversacionNueva(c)

\* extraer_preferencias(mensaje, conversacion)
ExtraerPreferencias ==
    /\ extraccion = <<>>
    /\ conversacion' = [conversacion EXCEPT
            !.contexto = extraer_preferencias(mensaje, @)]
    /\ extraccion' = <<[antes |-> conversacion.contexto,
                        despues |-> extraer_preferencias(mensaje, conversacion.contexto)]>>
    /\ UNCHANGED <<carritoVars, mensaje, mcp, busquedaVars, accionesVars, modelo,
                   turno, deteccion, dialogo, sesionVars>>

NextPreferencias == ExtraerPreferencias

SpecPreferencias == InitPreferencias /\ [][NextPreferencias]_vars

-----------------------------------------------------------------------------
(* The detector of an accepted offer.                                      *)

\* the messages of the assistant, oldest first
DelAsistente(mensajes) == SelectSeq(mensajes, LAMBDA m : m.role = "assistant")

\* the positions of s, among its last n, that hold an offer
OfertasRecientes(s, n) == {i \in DOMAIN s : Len(s) - i < n /\ es_oferta(s[i])}

\* found is the content of the latest offer among the last n of s, or
\* nothing when there is none
EsLaUltimaOferta(found, s, n) ==
    /\ OfertasRecientes(s, n) = {} => found = <<>>
    /\ OfertasRecientes(s, n) # {} =>
          \E i \in OfertasRecientes(s, n) :
             /\ found = s[i].content
             /\ \A j \in OfertasRecientes(s, n) : j <= i

\* C27 as stated: the detector finds the most recent offer among the last
\* 10 messages of the assistant, however many messages of the user lie
\* between them
C27_OfertaEntreDiezDelAsistente ==
    deteccion.hecho /\ deteccion.buscada =>
        EsLaUltimaOferta(deteccion.oferta,
                         DelAsistente(conversacion.mensajes), 10)

\* C27 amended: the detector finds the most recent offer of the assistant
\* among the last 10 messages of the history, those of the user counted;
\* an offer further back is not found
C27_OfertaEntreDiezMensajes ==
    deteccion.hecho /\ deteccion.buscada =>
        EsLaUltimaOferta(deteccion.oferta, conversacion.mensajes, 10)

\* the offer found is the tenth message from the end, messages of the user
\* follow it, and an older offer precedes it
C27_Witness ==
    /\ deteccion.hecho /\ deteccion.buscada
    /\ \E i \in DOMAIN conversacion.mensajes :
          /\ Len(conversacion.mensajes) - i = 9
          /\ es_oferta(conversacion.mensajes[i])
          /\ deteccion.oferta = conversacion.mensajes[i].content
          /\ \E j \in 1..(i - 1) :
                /\ es_oferta(conversacion.mensajes[j])
                /\ conversacion.mensajes[j].content # deteccion.oferta
          /\ \E j \in (i + 1)..Len(conversacion.mensajes) :
                conversacion.mensajes[j].role = "user"

\* the card p repeats an item of the cart: the same id, or a name that
\* contains the name of the item, letter case apart
YaEnCarrito(p, carro) ==
    \/ p.id \in carrito_ids(carro)
    \/ \E n \in carrito_nombres(carro) : n # "" /\ Contiene(p.nombre, n)

\* C28: whatever complement was offered, no product the detector returns
\* is already in the cart, by id or by name
C28_NadaDelCarrito ==
    deteccion.hecho =>
        \A i \in DOMAIN deteccion.productos :
            ~YaEnCarrito(deteccion.productos[i], conversacion.carrito)

\* what the catalog lists for the complement the offer names (lines 464,
\* 484, 516: the first of globo, chocolate, peluche that the offer mentions)
candidatos_ofrecidos(oferta, m) ==
    IF oferta = <<>> THEN <<>>
    ELSE IF texto_contiene(oferta, "globo") THEN buscar_productos(m, <<"globos">>)
    ELSE IF texto_contiene(oferta, "chocolate")
    THEN buscar_productos(m, <<"chocolates">>)
    ELSE IF texto_contiene(oferta, "peluche") THEN buscar_productos(m, <<"peluche">>)
    ELSE <<>>

\* the user affirmed an offer and the cart holds every candidate of it
TodoEnCarrito ==
    /\ deteccion.hecho /\ deteccion.buscada
    /\ candidatos_ofrecidos(deteccion.oferta, mcp) # <<>>
    /\ \A i \in DOMAIN candidatos_ofrecidos(deteccion.oferta, mcp) :
          YaEnCarrito(tarjeta(candidatos_ofrecidos(deteccion.oferta, mcp)[i]),
                      conversacion.carrito)

\* C29: when the user affirms an offer whose candidates are all in the cart
\* already, the detector still returns a response, with a text and an empty
\* list of products
C29_RespondeSinCandidatos ==
    TodoEnCarrito =>
        deteccion.hay /\ deteccion.texto # <<>> /\ deteccion.productos = <<>>

\* every card is of the given type of product
TodosDeTipo(productos, tipo) == \A i \in DOMAIN productos : productos[i].tipo = tipo

\* what is served for an offer: balloons if it names them, else chocolates
\* if it names them, else plush
SirvePorPrecedencia(oferta, productos) ==
    IF texto_contiene(oferta, "globo") THEN TodosDeTipo(productos, "Globos")
    ELSE IF texto_contiene(oferta, "chocolate")
    THEN TodosDeTipo(productos, "Chocolates")
    ELSE texto_contiene(oferta, "peluche") /\ TodosDeTipo(productos, "Peluche")

\* C30: the detector returns a result only if the message has no word of
\* the cart, it equals or starts with an affirmation and an offer of the
\* assistant was found; of the complements an offer names, balloons are
\* served before chocolates before plush
C30_SoloAfirmacionDeOferta ==
    deteccion.hecho /\ deteccion.hay =>
        /\ ~Contiene(mensaje, "carrito") /\ ~Contiene(mensaje, "agregar")
        /\ \E a \in afirmaciones : a \in Prefijos[mensaje]
        /\ \E i \in DOMAIN conversacion.mensajes :
              /\ es_oferta(conversacion.mensajes[i])
              /\ deteccion.oferta = conversacion.mensajes[i].content
        /\ deteccion.productos # <<>>
        /\ SirvePorPrecedencia(deteccion.oferta, deteccion.productos)

\* an offer naming the three complements, affirmed by a message that starts
\* with an affirmation, is answered with balloons although the catalog
\* lists chocolates and plush as well
C30_Witness ==
    /\ deteccion.hecho /\ deteccion.hay
    /\ mensaje = "muestrame opciones"
    /\ texto_contiene(deteccion.oferta, "globo")
    /\ texto_contiene(deteccion.oferta, "chocolate")
    /\ texto_contiene(deteccion.oferta, "peluche")
    /\ buscar_productos(mcp, <<"chocolates">>) # <<>>
    /\ buscar_productos(mcp, <<"peluche">>) # <<>>
    /\ TodosDeTipo(deteccion.productos, "Globos")

-----------------------------------------------------------------------------
(* The decision to search, the budget, the fallback and the bubbles.       *)

Tiene(contexto, k) == k \in DOMAIN contexto

\* a budget bound is present
ConPresupuesto(contexto) ==
    Tiene(contexto, "presupuesto_min") \/ Tiene(contexto, "presupuesto_max")

\* the rule of the decision: a budget bound with an occasion, a type of
\* product, a colour or a flower; or a phrase that asks to see options
DebeBuscar(msg, contexto) ==
    \/ Tiene(contexto, "ocasion") /\ ConPresupuesto(contexto)
    \/ Tiene(contexto, "tipo_producto") /\ ConPresupuesto(contexto)
    \/ /\ Tiene(contexto, "color_preferido") \/ Tiene(contexto, "flor_preferida")
       /\ ConPresupuesto(contexto)
    \/ \E kw \in KwBusquedaExplicita : Contiene(msg, kw)

\* C31: the proactive search sends requests to the catalog exactly when the
\* rule holds; otherwise the excerpt is empty, nothing is requested and the
\* context is left as it was
C31_BuscaSiHayContexto ==
    busqueda.n > 0 =>
        /\ busqueda.servicio # <<>> <=> DebeBuscar(mensaje, busqueda.contexto_previo)
        /\ ~DebeBuscar(mensaje, busqueda.contexto_previo) =>
              /\ busqueda.extracto.vacio
              /\ busqueda.servicio = <<>>
              /\ conversacion.contexto = busqueda.contexto_previo

\* a colour and a budget alone make the search run and find products
C31_Witness ==
    /\ busqueda.n = 1
    /\ DOMAIN busqueda.contexto_previo = {"color_preferido", "presupuesto_max"}
    /\ ~\E kw \in KwBusquedaExplicita : Contiene(mensaje, kw)
    /\ "buscar_productos" \in Rango(busqueda.servicio)
    /\ ~busqueda.extracto.vacio

\* the id of the card a turn attached as upsell ("" when it attached none)
UpsellAdjunto(d) ==
    IF /\ d.error = "" /\ d.via = "" /\ d.productos # <<>>
       /\ "es_upsell" \in DOMAIN d.productos[Len(d.productos)]
       /\ d.productos[Len(d.productos)].es_upsell
    THEN d.productos[Len(d.productos)].id ELSE ""

\* the preferences of a context: all but the two keys of the upsell
Preferencias(contexto) ==
    [k \in DOMAIN contexto \ {"upsell_producto", "ultimo_upsell_id"} |-> contexto[k]]

\* C32: the first cross-sell candidate found is the one kept and its id is
\* stored as ultimo_upsell_id; and a complement attached as the upsell card
\* of a turn is not attached again as the upsell card of the next turn when
\* the preferences have not changed
C32_SinRepetirComplemento ==
    \A i \in DOMAIN dialogo :
        /\ (dialogo[i].error = "" /\ dialogo[i].proactiva = "disparada"
            /\ "upsell_producto" \in DOMAIN dialogo[i].contexto) =>
                dialogo[i].contexto["ultimo_upsell_id"]
                    = dialogo[i].contexto["upsell_producto"].id
        /\ (i > 1 /\ UpsellAdjunto(dialogo[i - 1]) # ""
            /\ Preferencias(dialogo[i].contexto) = Preferencias(dialogo[i - 1].contexto))
            => UpsellAdjunto(dialogo[i]) # UpsellAdjunto(dialogo[i - 1])

\* the budget keys the call wrote: new in the context, or with a new value
PresupuestosEscritos ==
    {k \in {"presupuesto_min", "presupuesto_max"} :
        /\ k \in DOMAIN extraccion[1].despues
        /\ \/ k \notin DOMAIN extraccion[1].antes
           \/ extraccion[1].antes[k] # extraccion[1].despues[k]}

\* C33: every budget value extraer_preferencias wrote into the context,
\* from one amount or from a range, is at least 30
C33_PresupuestoDesdeTreinta ==
    extraccion # <<>> =>
        \A k \in PresupuestosEscritos : extraccion[1].despues[k] >= 30

\* the directives of the turn added to the cart or recorded a checkout
CompraHecha ==
    \E i \in DOMAIN turno.acciones :
        turno.acciones[i].tipo \in {"agregar_carrito", "checkout"}

\* C34: in a turn where a directive added to the cart or recorded a
\* checkout, the parser displayed no product and the message is no new
\* request for a category, the generic fallback search does not run: the
\* list of products returned is empty
C34_SinFallbackTrasCompra ==
    (/\ turno.hecho /\ turno.error = "" /\ turno.via = ""
     /\ CompraHecha
     /\ turno.productos_parser = <<>>
     /\ detectar_nueva_solicitud(mensaje) = "")
    => turno.productos = <<>>

RECURSIVE Aplanar(_)
\* the pieces of a list of bubbles, one after the other
Aplanar(burbujas) ==
    IF burbujas = <<>> THEN <<>> ELSE burbujas[1] \o Aplanar(Tail(burbujas))

EsContenido(tok) == tok # NuevaBurbuja /\ tok # Espacio

\* the history entry the turn appended for the assistant
EntradaDelAsistente == conversacion.mensajes[Len(conversacion.mensajes)]

\* C35: the bubbles returned are the segments of the cleaned reply between
\* separators, in order, the empty ones dropped: no bubble is empty or holds
\* the separator; the entry of the assistant in the history is the bubbles
\* joined by single spaces and holds no separator
C35_BurbujasSinSeparador ==
    (turno.hecho /\ turno.error = "" /\ turno.via = "") =>
        /\ \A i \in DOMAIN turno.burbujas :
              /\ turno.burbujas[i] # <<>>
              /\ NuevaBurbuja \notin Rango(turno.burbujas[i])
              /\ \E j \in DOMAIN split(turno.texto) :
                    turno.burbujas[i] = strip(split(turno.texto)[j])
        /\ SelectSeq(Aplanar(turno.burbujas), EsContenido)
              = SelectSeq(turno.texto, EsContenido)
        /\ EntradaDelAsistente.role = "assistant"
        /\ EntradaDelAsistente.content = unir(turno.burbujas)
        /\ NuevaBurbuja \notin Rango(EntradaDelAsistente.content)
        /\ Len(EntradaDelAsistente.content)
              = Len(Aplanar(turno.burbujas))
                + (IF turno.burbujas = <<>> THEN 0 ELSE Len(turno.burbujas) - 1)

\* a reply of four segments, one empty and one of white space: two bubbles,
\* kept in the history with one space between them
C35_Witness ==
    /\ turno.hecho /\ turno.error = "" /\ turno.via = ""
    /\ Len(split(turno.texto)) = 4
    /\ turno.burbujas = <<<<Texto("Hola")>>, <<Texto("Hola")>>>>
    /\ EntradaDelAsistente.content = <<Texto("Hola"), Espacio, Texto("Hola")>>

-----------------------------------------------------------------------------
(* Claims on the stored conversation and its history.                      *)

\* the messages, the cart items and the context of stored data
MensajesGuardados(data) ==
    [i \in DOMAIN data.mensajes |->
        MensajeChat(data.mensajes[i].role, data.mensajes[i].content)]

ItemsGuardados(data) ==
    IF data.carrito = <<>> THEN <<>> ELSE data.carrito[1].items

\* the step is a call of obtener_conversacion: the clock and the server
\* stand still and the last call recorded is a load
EsCarga ==
    /\ retorno'.op = "obtener"
    /\ almacen'.reloj = almacen.reloj
    /\ almacen'.servidor = almacen.servidor

\* what a load that raised nothing returned and left, given the store it
\* found
CargaFiel(a, session_id, canal, user_id) ==
    LET previo == datos_de(a, session_id)
        conv == retorno'.conv[1]
    IN /\ retorno'.nueva <=> previo = <<>>
       /\ previo = <<>> =>
            /\ conv = Conversacion(session_id, canal, user_id, <<>>,
                                   [existe |-> TRUE, items |-> <<>>],
                                   ContextoVacio)
            /\ datos_de(almacen', session_id) = <<serializar_conversacion(conv)>>
       /\ previo # <<>> =>
            /\ conv.mensajes = MensajesGuardados(previo[1])
            /\ conv.carrito.items = ItemsGuardados(previo[1])
            /\ conv.contexto = previo[1].contexto
            /\ almacen' = almacen

\* C36: obtener_conversacion creates and stores a new conversation (no
\* messages, empty cart, empty context) only when no record exists for the
\* session id; when a record exists it returns that record's messages, cart
\* items and context unchanged, whatever channel or user id is passed, and
\* leaves the store as it was.
C36_CreaSoloSinRegistro ==
    [][(EsCarga /\ retorno'.error = "")
       => CargaFiel(almacen, retorno'.session_id, retorno'.canal,
                    retorno'.user_id)]_vars

\* a record made on the widget, with two messages and a product in the cart,
\* is loaded with the channel and the user id of WhatsApp
C36_Witness ==
    /\ retorno.op = "obtener" /\ retorno.error = "" /\ ~retorno.nueva
    /\ retorno.canal = "whatsapp" /\ retorno.user_id = <<"51999">>
    /\ retorno.conv[1].canal = "widget" /\ retorno.conv[1].user_id = <<>>
    /\ Len(retorno.conv[1].mensajes) = 2
    /\ Len(retorno.conv[1].carrito.items) = 1
    /\ "presupuesto_max" \in DOMAIN retorno.conv[1].contexto
    /\ retorno.conv[1].contexto["presupuesto_max"] = 150

\* the step is a call of guardar_conversacion
EsGuardado ==
    /\ retorno'.op = "guardar"
    /\ almacen'.reloj = almacen.reloj
    /\ almacen'.servidor = almacen.servidor

\* the items of a cart, each with the subtotal its quantity and price give
ConSubtotales(items) ==
    [i \in DOMAIN items |->
        [producto_id |-> items[i].producto_id,
         producto_nombre |-> items[i].producto_nombre,
         cantidad |-> items[i].cantidad,
         precio_unitario |-> items[i].precio_unitario,
         subtotal |-> items[i].cantidad * items[i].precio_unitario]]

\* the load r found the conversation conv as it was saved
DevuelveLoGuardado(r, conv) ==
    /\ r.error = "" /\ ~r.nueva
    /\ r.conv[1].session_id = conv.session_id
    /\ r.conv[1].canal = conv.canal
    /\ r.conv[1].user_id = conv.user_id
    /\ r.conv[1].mensajes = conv.mensajes
    /\ r.conv[1].carrito.existe = conv.carrito.existe
    /\ r.conv[1].carrito.items = ConSubtotales(conv.carrito.items)
    /\ r.conv[1].contexto = conv.contexto

\* C40: saving a conversation and loading it back by session id returns a
\* conversation with the same session id, channel, user id, message sequence
\* (roles and contents in order), cart items (product id, name, quantity,
\* unit price, subtotal recomputed as quantity times unit price) and
\* preference context, on the networked and on the in-memory store, whoever
\* loads it.
C40_IdaYVuelta ==
    [][(EsGuardado /\ retorno'.error = "")
       => \A ll \in LlamadoresAlmacen :
            DevuelveLoGuardado(
                obtener_conversacion(almacen', retorno'.session_id,
                                     ll.canal, ll.user_id),
                retorno'.conv[1])]_vars

\* a WhatsApp conversation with a user id, two messages, two units of one
\* product and two facets has just been saved on the networked store
C40_Witness ==
    /\ retorno.op = "guardar" /\ retorno.error = ""
    /\ almacen.cliente
    /\ datos_de(almacen, retorno.session_id)
            = <<serializar_conversacion(retorno.conv[1])>>
    /\ retorno.conv[1].canal = "whatsapp"
    /\ retorno.conv[1].user_id = <<"51999">>
    /\ Len(retorno.conv[1].mensajes) = 2
    /\ Len(retorno.conv[1].carrito.items) = 1
    /\ retorno.conv[1].carrito.items[1].cantidad = 2
    /\ DOMAIN retorno.conv[1].contexto = {"ocasion", "presupuesto_max"}

\* the turns of the dialogue that returned
Completos == {i \in DOMAIN dialogo : dialogo[i].error = ""}

\* a is the start of b
EsPrefijo(a, b) == Len(a) <= Len(b) /\ SubSeq(b, 1, Len(a)) = a

\* the history after turn i is the history before it, then the message of
\* the user, then one message of the assistant
AgregaDos(i) ==
    LET antes == dialogo[i].antes.mensajes
        despues == dialogo[i].mensajes
    IN /\ Len(despues) = Len(antes) + 2
       /\ EsPrefijo(antes, despues)
       /\ despues[Len(antes) + 1] = MensajeChat("user", <<Texto(dialogo[i].mensaje)>>)
       /\ despues[Len(antes) + 2].role = "assistant"

\* C37: over the completed turns of a session the history only grows: each
\* turn appends the user's message and then exactly one assistant message, on
\* the early return of an accepted offer and on the full path alike, and the
\* messages of earlier turns stay as they were and where they were.
C37_HistorialSoloCrece ==
    /\ \A i \in Completos : AgregaDos(i)
    /\ \A i, j \in Completos :
            i < j => EsPrefijo(dialogo[i].mensajes, dialogo[j].antes.mensajes)
    /\ \A i \in Completos : EsPrefijo(dialogo[i].mensajes, conversacion.mensajes)
    /\ Len(conversacion.mensajes) = 2 * Cardinality(Completos)

\* a turn on the full path, then a turn that returned early on the accepted
\* offer: four messages, the third the "si" of the user
C37_Witness ==
    /\ Len(dialogo) = 2
    /\ dialogo[1].via = "" /\ dialogo[1].error = ""
    /\ dialogo[2].via = "upsell" /\ dialogo[2].error = ""
    /\ Len(conversacion.mensajes) = 4
    /\ conversacion.mensajes[3] = MensajeChat("user", <<Texto("si")>>)

-----------------------------------------------------------------------------
(* Claims on the directives of one model output and on the pending         *)
(* candidate across turns.                                                 *)

\* the product ids of the cart before or after the call
IdsDelCarrito ==
    {resultado.antes.carrito.items[i].producto_id :
        i \in DOMAIN resultado.antes.carrito.items}
    \cup {conversacion.carrito.items[i].producto_id :
            i \in DOMAIN conversacion.carrito.items}

\* how many units of id the call put into the cart
Aumento(id) ==
    CantidadEn(conversacion.carrito, id) - CantidadEn(resultado.antes.carrito, id)

\* C38: one model output changes the cart by at most one unit of one
\* product: only its first add-to-cart directive is applied, with quantity
\* 1, also when the output holds several add-to-cart directives for
\* different products; an output without the directive, or whose first
\* directive finds no product, leaves the items as they were.
C38_UnaUnidadPorRespuesta ==
    resultado.llamado =>
        /\ \A id \in IdsDelCarrito : Aumento(id) \in {0, 1}
        /\ \A id1, id2 \in IdsDelCarrito :
                (Aumento(id1) = 1 /\ Aumento(id2) = 1) => id1 = id2
        /\ \A id \in IdsDelCarrito :
                Aumento(id) = 1 =>
                    /\ AgregarResuelve
                    /\ id = resolver_producto(
                                DeTipo(respuesta, "AGREGAR_CARRITO")[1], bq)[1].id
        /\ (\A id \in IdsDelCarrito : Aumento(id) = 0)
                => conversacion.carrito.items = resultado.antes.carrito.items

\* the output holds two add-to-cart directives that resolve to different
\* products; only the product of the first is in the cart, once
C38_Witness ==
    /\ resultado.llamado /\ resultado.error = ""
    /\ Len(DeTipo(respuesta, "AGREGAR_CARRITO")) = 2
    /\ resolver_producto(DeTipo(respuesta, "AGREGAR_CARRITO")[1], bq) # <<>>
    /\ resolver_producto(DeTipo(respuesta, "AGREGAR_CARRITO")[2], bq) # <<>>
    /\ resolver_producto(DeTipo(respuesta, "AGREGAR_CARRITO")[1], bq)[1].id = "27"
    /\ resolver_producto(DeTipo(respuesta, "AGREGAR_CARRITO")[2], bq)[1].id = "26"
    /\ resultado.antes.carrito.items = <<>>
    /\ Len(conversacion.carrito.items) = 1
    /\ conversacion.carrito.items[1].producto_id = "27"
    /\ conversacion.carrito.items[1].cantidad = 1

\* the card carries the upsell flag
Marcada(p) == "es_upsell" \in DOMAIN p /\ p.es_upsell

\* the turn went the full path, returned, and its parser displayed nothing
\* (or something)
SinParser(d) == d.error = "" /\ d.via = "" /\ d.productos_parser = <<>>

ConParser(d) == d.error = "" /\ d.via = "" /\ d.productos_parser # <<>>

\* the context the session holds after turn i: what the next turn loads,
\* or what is saved now
ContextoTras(i) ==
    IF i < Len(dialogo) THEN dialogo[i + 1].antes.contexto
    ELSE conversacion.contexto

\* the candidate c is pending in the context
Pendiente(contexto, c) ==
    "upsell_producto" \in DOMAIN contexto /\ contexto["upsell_producto"] = c

\* C39: a turn whose parser displayed nothing shows no upsell card in the
\* list of its new-request or fallback search, and the candidate pending
\* when the list was settled stays in the context as it was, the one of an
\* earlier turn included when the search of this turn did not fire; a later
\* turn whose parser displays products and whose own proactive search did
\* not fire shows that candidate as its last card, flagged, and takes it
\* out of the context.
C39_CandidatoRezagado ==
    \A i \in DOMAIN dialogo :
        /\ SinParser(dialogo[i]) =>
            /\ \A k \in DOMAIN dialogo[i].productos : ~Marcada(dialogo[i].productos[k])
            /\ dialogo[i].upsell_prod # <<>> =>
                    /\ Pendiente(dialogo[i].contexto, dialogo[i].upsell_prod[1])
                    /\ Pendiente(ContextoTras(i), dialogo[i].upsell_prod[1])
            /\ ("upsell_producto" \in DOMAIN dialogo[i].antes.contexto
                 /\ dialogo[i].proactiva # "disparada") =>
                    Pendiente(ContextoTras(i),
                              dialogo[i].antes.contexto["upsell_producto"])
        /\ (/\ ConParser(dialogo[i])
            /\ "upsell_producto" \in DOMAIN dialogo[i].antes.contexto
            /\ dialogo[i].proactiva # "disparada") =>
            /\ dialogo[i].productos[Len(dialogo[i].productos)]
                    = [dialogo[i].antes.contexto["upsell_producto"]
                            EXCEPT !.es_upsell = TRUE]
            /\ \A k \in 1..(Len(dialogo[i].productos) - 1) :
                    ~Marcada(dialogo[i].productos[k])
            /\ "upsell_producto" \notin DOMAIN dialogo[i].contexto

\* a first turn whose parser displayed nothing: its fallback list has no
\* upsell card and the balloon found stays pending; a second turn whose
\* search did not fire displays a product and the balloon after it
C39_Witness ==
    /\ Len(dialogo) = 2
    /\ SinParser(dialogo[1])
    /\ dialogo[1].productos # <<>>
    /\ dialogo[1].upsell_prod # <<>>
    /\ dialogo[1].upsell_prod[1].id = "44"
    /\ ConParser(dialogo[2])
    /\ dialogo[2].proactiva # "disparada"
    /\ Len(dialogo[2].productos) >= 2
    /\ dialogo[2].productos[Len(dialogo[2].productos)].id = "44"
    /\ Marcada(dialogo[2].productos[Len(dialogo[2].productos)])
    /\ "upsell_producto" \notin DOMAIN conversacion.contexto

====
